---- MODULE Spec2Model ----
(***************************************************************************)
(* Search result cache (zustand store `useSearchStore`) and the cache-     *)
(* aware search runner of the Dashboard page (`runSearch`), and the agent  *)
(* bridge: the socket and polling transports that forward agent messages.  *)
(*                                                                         *)
(* JavaScript strings are sequences of one-character strings; a cache key  *)
(* is such a sequence led by one token for the literal prefix ("text:",    *)
(* "nearby:").  A handler runs to completion at one reading of Date.now(); *)
(* the reading of each handler is an input, never earlier than the last.   *)
(***************************************************************************)
EXTENDS Integers, Sequences, FiniteSets, TLC

VARIABLES
    now,              \* the last reading of Date.now()
    cache,            \* store.cache, in Object.keys order: <<[key, val]>>
    lastKey,          \* store.lastKey (NoKey is null)
    lastRestored,     \* store.lastRestored
    radiusByPlace,    \* store.radiusByPlace
    categoryByPlace,  \* store.categoryByPlace
    ret,              \* the store call made last and what it returned
    loading,          \* Dashboard: useState loading
    properties,       \* Dashboard: useState properties (the published result set)
    selected,         \* Dashboard: useState selected
    agentBanner,      \* Dashboard: useState agentBanner
    mapRefState,      \* Dashboard: useState mapRefState
    location,         \* Dashboard: useLocation().search, parsed (Null: no search params)
    runSearchId,      \* Dashboard: identity of the runSearch callback (renders that renewed it)
    urlEffectDeps,    \* Dashboard: the dependencies the URL effect last ran with
    currentAbortRef,  \* Dashboard: currentAbortRef.current (0 is null)
    runs,             \* every runSearch call so far, by issue number
    mounted,          \* the Dashboard component is mounted
    consoleErrors,    \* number of console.error("Search failed:") lines
    publishedBy,      \* issue number of the run that set `properties` last
    writes,           \* SpecCap: the store's writes so far, <<[op, key, ts]>>
    insts,            \* agent transports started so far (one per effect run)
    sockets,          \* every WebSocket created so far, by creation number
    event             \* the transport handler run last and what it forwarded

storeVars == <<cache, lastKey, lastRestored, radiusByPlace, categoryByPlace>>
navVars   == <<location, runSearchId, urlEffectDeps>>
dashVars  == <<loading, properties, selected, agentBanner, mapRefState,
               currentAbortRef, runs, mounted, consoleErrors, publishedBy, navVars>>
vars      == <<now, ret, cache, lastKey, lastRestored, radiusByPlace, categoryByPlace,
               loading, properties, selected, agentBanner, mapRefState,
               currentAbortRef, runs, mounted, consoleErrors, publishedBy, writes,
               insts, sockets, event, location, runSearchId, urlEffectDeps>>
bridgeVars == <<insts, sockets, event>>

----------------------------------------------------------------------------
(* Program constants                                                       *)

TTL_MS == 24 * 60 * 60 * 1000
MAX_KEYS == 10

(* JavaScript null / undefined *)
Null == [null |-> TRUE]
NoKey == <<>>

----------------------------------------------------------------------------
(* Bounds of the model                                                     *)

T0 == 1               \* Date.now() at construction
StoreMaxTicks == 2    \* SpecStore: one-millisecond steps of the clock
StoreMaxJumps == 1    \* SpecStore: (TTL - 1)-millisecond steps of the clock
ExtraKeys == 2        \* SpecCap: distinct keys beyond MAX_KEYS
CapMaxOther == 1      \* SpecCap: writes other than a save of the next new key
MaxRuns == 2          \* Spec: runSearch calls
MaxJumps == 1         \* Spec: steps of the clock past the TTL
MaxStarts == 2        \* SpecBridge: transports started (effect runs)
MaxSockets == 3       \* SpecBridge: WebSockets created

----------------------------------------------------------------------------
(* Strings                                                                 *)

IsSpace(c) == c = " "

Lower(c) == IF c = "A" THEN "a" ELSE IF c = "B" THEN "b" ELSE c

ToLowerCase(s) == [i \in 1..Len(s) |-> Lower(s[i])]

RECURSIVE TrimStart(_)
TrimStart(s) == IF s # <<>> /\ IsSpace(Head(s)) THEN TrimStart(Tail(s)) ELSE s

RECURSIVE TrimEnd(_)
TrimEnd(s) ==
    IF s # <<>> /\ IsSpace(s[Len(s)]) THEN TrimEnd(SubSeq(s, 1, Len(s) - 1)) ELSE s

Trim(s) == TrimEnd(TrimStart(s))

----------------------------------------------------------------------------
(* Search parameters: [mode, q, sw, ne]; a field the object lacks is <<>>, *)
(* which `q || ""` and the template literal of the tested shapes read as   *)
(* the empty string.                                                       *)

TextParams(q) == [mode |-> "text", q |-> q, sw |-> <<>>, ne |-> <<>>]
NearbyParams(sw, ne) == [mode |-> "nearby", q |-> <<>>, sw |-> sw, ne |-> ne]

JsonStringify(params) ==
    <<"{", "mode:", params.mode>> \o <<",q:">> \o params.q
        \o <<",sw:">> \o params.sw \o <<",ne:">> \o params.ne \o <<"}">>

BuildKeyNoLowerCase(params) ==
    IF params.mode = "text" THEN <<"text:">> \o Trim(params.q)
    ELSE IF params.mode = "nearby"
         THEN <<"nearby:">> \o params.sw \o <<"|">> \o params.ne
         ELSE JsonStringify(params)

buildKey(params) ==
    IF params.mode = "text" THEN <<"text:">> \o ToLowerCase(Trim(params.q))
    ELSE IF params.mode = "nearby"
         THEN <<"nearby:">> \o params.sw \o <<"|">> \o params.ne
         ELSE JsonStringify(params)

----------------------------------------------------------------------------
(* The cache object                                                        *)

Keys(c) == {c[i].key : i \in 1..Len(c)}

IndexOf(c, key) == CHOOSE i \in 1..Len(c) : c[i].key = key

(* cache[key] *)
Lookup(c, key) == IF key \in Keys(c) THEN c[IndexOf(c, key)].val ELSE Null

(* cache[key] = val: an own property keeps its place, a new one goes last *)
Put(c, key, val) ==
    IF key \in Keys(c)
    THEN [c EXCEPT ![IndexOf(c, key)] = [key |-> key, val |-> val]]
    ELSE Append(c, [key |-> key, val |-> val])

(* The subsequence of c at the indices I, in order *)
RECURSIVE Pick(_, _, _)
Pick(c, I, i) ==
    IF i > Len(c) THEN <<>>
    ELSE (IF i \in I THEN <<c[i]>> ELSE <<>>) \o Pick(c, I, i + 1)

Expired(val, t) == val.ts # 0 /\ t - val.ts > TTL_MS

(* Place of c[i] after the stable ascending sort on ts *)
SortRank(c, i) ==
    Cardinality({j \in 1..Len(c) :
        c[j].val.ts < c[i].val.ts \/ (c[j].val.ts = c[i].val.ts /\ j < i)})

Sweep(c, t) == Pick(c, {i \in 1..Len(c) : ~Expired(c[i].val, t)}, 1)

EvictNoCapacity(c, t) == Sweep(c, t)

EvictNewestFirst(c, t) ==
    LET swept == Sweep(c, t)
        n == Len(swept)
    IN  IF n > MAX_KEYS
        THEN Pick(swept, {i \in 1..n : SortRank(swept, i) < MAX_KEYS}, 1)
        ELSE swept

EvictCountingExpired(c, t) ==
    LET swept == Sweep(c, t)
        n == Len(c)
    IN  IF n > MAX_KEYS
        THEN Pick(swept, {i \in 1..Len(swept) : SortRank(swept, i) >= n - MAX_KEYS}, 1)
        ELSE swept

_evictIfNeeded(c, t) ==
    LET swept == Sweep(c, t)
        n == Len(swept)
    IN  IF n > MAX_KEYS
        THEN Pick(swept, {i \in 1..n : SortRank(swept, i) >= n - MAX_KEYS}, 1)
        ELSE swept

EntryWithoutTimestamp(params, results, mapState, t) ==
    [results |-> results, params |-> params, mapState |-> mapState, ts |-> 0]

Entry(params, results, mapState, t) ==
    [results |-> results, params |-> params, mapState |-> mapState, ts |-> t]

(* saveResults: the cache it sets *)
SavedCache(c, params, results, mapState, t) ==
    _evictIfNeeded(Put(c, buildKey(params), Entry(params, results, mapState, t)), t)

GetResultsNoExpiry(c, params, t) == Lookup(c, buildKey(params))

getResults(c, params, t) ==
    LET entry == Lookup(c, buildKey(params))
    IN  IF entry = Null THEN Null
        ELSE IF t - entry.ts > TTL_MS THEN Null
        ELSE entry

GetLastNoExpiry(c, lk, t) == IF lk = NoKey THEN Null ELSE Lookup(c, lk)

getLast(c, lk, t) ==
    IF lk = NoKey THEN Null
    ELSE LET entry == Lookup(c, lk)
         IN  IF entry = Null THEN Null
             ELSE IF t - entry.ts > TTL_MS THEN Null
             ELSE entry

GetResultsOrLastExactOnly(c, lk, params, t) ==
    IF params # Null THEN getResults(c, params, t) ELSE Null

(* params = Null stands for a falsy argument *)
getResultsOrLast(c, lk, params, t) ==
    LET exact == IF params # Null THEN getResults(c, params, t) ELSE Null
    IN  IF exact # Null THEN exact ELSE getLast(c, lk, t)

----------------------------------------------------------------------------
(* Store handlers.  Each is called at the clock reading now + d and leaves  *)
(* in `ret` what it was called with and what it returned (saveResults      *)
(* also the results and mapState it was called with).                      *)

Returned(op, arg, value) == [op |-> op, arg |-> arg, value |-> value]

saveResults(params, results, mapState, d) ==
    LET t == now + d
        key == buildKey(params)
    IN  /\ now' = t
        /\ cache' = SavedCache(cache, params, results, mapState, t)
        /\ lastKey' = key
        /\ lastRestored' = FALSE
        /\ ret' = [op |-> "saveResults", arg |-> params, value |-> [key |-> key],
                   results |-> results, mapState |-> mapState]
        /\ UNCHANGED <<radiusByPlace, categoryByPlace>>

CallGetResultsSweeping(params, d) ==
    /\ now' = now + d
    /\ ret' = Returned("getResults", params, getResults(cache, params, now + d))
    /\ cache' = Sweep(cache, now + d)
    /\ UNCHANGED <<lastKey, lastRestored, radiusByPlace, categoryByPlace>>

CallGetResults(params, d) ==
    /\ now' = now + d
    /\ ret' = Returned("getResults", params, getResults(cache, params, now + d))
    /\ UNCHANGED storeVars

CallGetResultsOrLast(params, d) ==
    /\ now' = now + d
    /\ ret' = Returned("getResultsOrLast", params,
                       getResultsOrLast(cache, lastKey, params, now + d))
    /\ UNCHANGED storeVars

CallGetLast(d) ==
    /\ now' = now + d
    /\ ret' = Returned("getLast", Null, getLast(cache, lastKey, now + d))
    /\ UNCHANGED storeVars

(* saveMapState: paramsOrNull = Null stands for a falsy first argument *)
MapStateKey(paramsOrNull) ==
    IF paramsOrNull # Null THEN buildKey(paramsOrNull) ELSE lastKey

WithMapStateUpsert(c, key, mapState, t) ==
    IF key = NoKey THEN c
    ELSE IF key \in Keys(c)
    THEN Put(c, key, [Lookup(c, key) EXCEPT !.mapState = mapState, !.ts = t])
    ELSE Put(c, key, Entry(Null, <<>>, mapState, t))

WithMapStateOnly(c, key, mapState, t) ==
    IF key # NoKey /\ key \in Keys(c)
    THEN Put(c, key, Entry(Null, <<>>, mapState, t))
    ELSE c

(* saveMapState: the cache it leaves, { ...cache[key], mapState, ts } put   *)
(* at a key that is there                                                  *)
WithMapState(c, key, mapState, t) ==
    IF key # NoKey /\ key \in Keys(c)
    THEN Put(c, key, [Lookup(c, key) EXCEPT !.mapState = mapState, !.ts = t])
    ELSE c

saveMapState(paramsOrNull, mapState, d) ==
    LET t == now + d
        key == MapStateKey(paramsOrNull)
    IN  /\ now' = t
        /\ ret' = Returned("saveMapState", paramsOrNull, Null)
        /\ cache' = WithMapState(cache, key, mapState, t)
        /\ lastKey' = IF key # NoKey /\ key \in Keys(cache) THEN key ELSE lastKey
        /\ UNCHANGED <<lastRestored, radiusByPlace, categoryByPlace>>

(* The values the preference maps are given and hold: a number (n), NaN,   *)
(* or a string (s, its characters).                                        *)
Val(t, n, s) == [t |-> t, n |-> n, s |-> s]
NumV(n) == Val("number", n, <<>>)
NaN == Val("NaN", 0, <<>>)
StrV(s) == Val("string", 0, s)

(* !v *)
Falsy(v) == v = NumV(0) \/ v = NaN \/ v = StrV(<<>>)

Digits == <<"0", "1", "2", "3", "4", "5", "6", "7", "8", "9">>
IsDigit(ch) == \E i \in 1..10 : Digits[i] = ch
DigitValue(ch) == (CHOOSE i \in 1..10 : Digits[i] = ch) - 1

RECURSIVE DecimalValue(_)
DecimalValue(s) ==
    IF s = <<>> THEN 0
    ELSE 10 * DecimalValue(SubSeq(s, 1, Len(s) - 1)) + DigitValue(s[Len(s)])

(* Number(v): a number is itself; a string is trimmed, "" is 0, a run of   *)
(* decimal digits is its value, any other text of the model is NaN         *)
Number(v) ==
    IF v.t # "string" THEN v
    ELSE LET s == Trim(v.s)
         IN  IF \A i \in 1..Len(s) : IsDigit(s[i]) THEN NumV(DecimalValue(s)) ELSE NaN

(* r[placeId] = Number(radius) *)
StoredRadius(v) == Number(v)

saveRadiusForPlace(placeId, radius, d) ==
    /\ now' = now + d
    /\ radiusByPlace' = [p \in DOMAIN radiusByPlace \cup {placeId} |->
                            IF p = placeId THEN StoredRadius(radius) ELSE radiusByPlace[p]]
    /\ ret' = Returned("saveRadiusForPlace", [placeId |-> placeId], Null)
    /\ UNCHANGED <<cache, lastKey, lastRestored, categoryByPlace>>

saveCategoryForPlace(placeId, categoryKey, d) ==
    /\ now' = now + d
    /\ categoryByPlace' = [p \in DOMAIN categoryByPlace \cup {placeId} |->
                            IF p = placeId THEN categoryKey ELSE categoryByPlace[p]]
    /\ ret' = Returned("saveCategoryForPlace", [placeId |-> placeId], Null)
    /\ UNCHANGED <<cache, lastKey, lastRestored, radiusByPlace>>

(* m[placeId] || null *)
OrNull(m, placeId) ==
    IF placeId \in DOMAIN m /\ ~Falsy(m[placeId]) THEN m[placeId] ELSE Null

getRadiusForPlace(placeId, d) ==
    /\ now' = now + d
    /\ ret' = Returned("getRadiusForPlace", [placeId |-> placeId],
                       OrNull(radiusByPlace, placeId))
    /\ UNCHANGED storeVars

getCategoryForPlace(placeId, d) ==
    /\ now' = now + d
    /\ ret' = Returned("getCategoryForPlace", [placeId |-> placeId],
                       OrNull(categoryByPlace, placeId))
    /\ UNCHANGED storeVars

(* set({ lastRestored: !!flag }) *)
markRestored(flag, d) ==
    /\ now' = now + d
    /\ lastRestored' = flag
    /\ ret' = Returned("markRestored", Null, Null)
    /\ UNCHANGED <<cache, lastKey, radiusByPlace, categoryByPlace>>

ClearAllWipesPreferences(d) ==
    /\ now' = now + d
    /\ cache' = <<>>
    /\ lastKey' = NoKey
    /\ lastRestored' = FALSE
    /\ radiusByPlace' = <<>>
    /\ categoryByPlace' = <<>>
    /\ ret' = Returned("clearAll", Null, Null)

clearAll(d) ==
    /\ now' = now + d
    /\ cache' = <<>>
    /\ lastKey' = NoKey
    /\ lastRestored' = FALSE
    /\ ret' = Returned("clearAll", Null, Null)
    /\ UNCHANGED <<radiusByPlace, categoryByPlace>>

----------------------------------------------------------------------------
(* getKey: buildKey on any params a caller or an agent message can hand    *)
(* it.  params is an object (t = "object") whose mode, q, sw, ne are       *)
(* values or Undefined (a field it lacks), or null, or undefined (an       *)
(* omitted argument).  The outcome is the key returned, or threw when the  *)
(* call ends on a TypeError.                                               *)

Undefined == Val("undefined", 0, <<>>)

AnyParams(t, mode, q, sw, ne) == [t |-> t, mode |-> mode, q |-> q, sw |-> sw, ne |-> ne]
ObjParams(mode, q, sw, ne) == AnyParams("object", mode, q, sw, ne)
NullParams == AnyParams("null", Undefined, Undefined, Undefined, Undefined)
UndefinedParams == AnyParams("undefined", Undefined, Undefined, Undefined, Undefined)

RECURSIVE NumberToString(_)
NumberToString(n) ==
    IF n < 10 THEN <<Digits[n + 1]>>
    ELSE NumberToString(n \div 10) \o <<Digits[(n % 10) + 1]>>

(* `${v}` *)
Interpolated(v) ==
    CASE v.t = "string" -> v.s
      [] v.t = "number" -> NumberToString(v.n)
      [] v.t = "NaN" -> <<"NaN">>
      [] OTHER -> <<"undefined">>

(* JSON.stringify of a property value *)
JsonValue(v) ==
    CASE v.t = "string" -> <<"\"">> \o v.s \o <<"\"">>
      [] v.t = "number" -> NumberToString(v.n)
      [] OTHER -> <<"null">>

JsonProperty(name, v, first) ==
    IF v.t = "undefined" THEN <<>>
    ELSE (IF first THEN <<>> ELSE <<",">>) \o <<"\"", name, "\"", ":">> \o JsonValue(v)

(* JSON.stringify(params), params = {} for an omitted argument *)
JsonStringifyAny(params) ==
    IF params.t = "null" THEN <<"null">>
    ELSE LET m == JsonProperty("mode", params.mode, TRUE)
             q == JsonProperty("q", params.q, m = <<>>)
             sw == JsonProperty("sw", params.sw, m \o q = <<>>)
             ne == JsonProperty("ne", params.ne, m \o q \o sw = <<>>)
         IN  <<"{">> \o m \o q \o sw \o ne \o <<"}">>

Key(k) == [threw |-> FALSE, key |-> k]
TypeError == [threw |-> TRUE, key |-> <<>>]

(* (q || "").trim().toLowerCase(): only a string has trim *)
NormalizedQ(q) ==
    IF Falsy(q) \/ q.t = "undefined" THEN Key(<<>>)
    ELSE IF q.t = "string" THEN Key(ToLowerCase(Trim(q.s)))
    ELSE TypeError

buildKeyAny(params) ==
    IF params.mode = StrV(<<"text">>)
    THEN LET nq == NormalizedQ(params.q)
         IN  IF nq.threw THEN TypeError ELSE Key(<<"text:">> \o nq.key)
    ELSE IF params.mode = StrV(<<"nearby">>)
         THEN Key(<<"nearby:">> \o Interpolated(params.sw) \o <<"|">> \o Interpolated(params.ne))
         ELSE Key(JsonStringifyAny(params))

(* getKey: buildKey *)
getKey(params) ==
    /\ ret' = Returned("getKey", params, buildKeyAny(params))
    /\ UNCHANGED <<now, storeVars>>

----------------------------------------------------------------------------
(* Clock readings of the model: T0 + a + b * Jump, a one-millisecond steps *)
(* and b steps of Jump = TTL - 1 milliseconds, so that ages of TTL - 1,    *)
(* TTL and TTL + 1 all occur.                                              *)

Jump == TTL_MS - 1

ClockAllows(d, maxTicks, maxJumps) ==
    LET a == (now - T0) % Jump
        b == (now - T0) \div Jump
    IN  \/ d = 0
        \/ d = 1 /\ a < maxTicks
        \/ d = Jump /\ b < maxJumps

----------------------------------------------------------------------------
(* Agent messages                                                          *)
(*                                                                         *)
(* A JSON value as the transports look at it: t is "obj", "arr", "str" (a  *)
(* non-empty string) or "null"; type, message are the properties of those  *)
(* names (<<>> when the object has none) and pending is the truthiness of  *)
(* the property `pending`; `rest` stands for every other property; items   *)
(* are the elements of an array.  Bad is a text JSON.parse rejects.        *)
Json(t, type, pending, message, rest, items) ==
    [t |-> t, type |-> type, pending |-> pending, message |-> message,
     rest |-> rest, items |-> items]

JNull == Json("null", <<>>, FALSE, <<>>, 0, <<>>)
JStr == Json("str", <<>>, FALSE, <<>>, 0, <<>>)
JArr(items) == Json("arr", <<>>, FALSE, <<>>, 0, items)
JObj(type, pending, message, rest) == Json("obj", type, pending, message, rest, <<>>)
Bad == Json("bad", <<>>, FALSE, <<>>, 0, <<>>)

(* !!v *)
Truthy(v) == v.t \in {"obj", "arr", "str"}

(* typeof v === "object" *)
IsObjectType(v) == v.t \in {"obj", "arr", "null"}

(* !!msg.type, for a msg that is not null *)
HasType(v) == v.type # <<>> /\ v.type[1] # ""

(* new Set([...]) of apply *)
allowed == {"AGENT_RESULTS", "AGENT_SEARCH", "AGENT_UI", "AGENT_PING", "AGENT_LOG"}

(* The handler run last: which one (op), of which transport and socket,    *)
(* on which payload (for a poll response, in which of the shapes the       *)
(* server put its message), the messages it forwarded in order, and        *)
(* whether it ended on an exception nothing caught.                        *)
Event(op, inst, sock, raw, shape, fwd, threw) ==
    [op |-> op, inst |-> inst, sock |-> sock, raw |-> raw, shape |-> shape,
     fwd |-> fwd, threw |-> threw]

----------------------------------------------------------------------------
(* Construction                                                            *)

StoreInit ==
    /\ now = T0
    /\ cache = <<>>
    /\ lastKey = NoKey
    /\ lastRestored = FALSE
    /\ radiusByPlace = <<>>
    /\ categoryByPlace = <<>>
    /\ ret = Returned("create", Null, Null)
    /\ writes = <<>>

DashInit ==
    /\ loading = FALSE
    /\ properties = <<>>
    /\ selected = Null
    /\ agentBanner = Null
    /\ mapRefState = Null
    /\ currentAbortRef = 0
    /\ runs = <<>>
    /\ mounted = TRUE
    /\ consoleErrors = 0
    /\ publishedBy = 0
    /\ location = Null
    /\ runSearchId = 0
    /\ urlEffectDeps = [ran |-> FALSE, search |-> Null, runSearch |-> 0]

BridgeInit ==
    /\ insts = <<>>
    /\ sockets = <<>>
    /\ event = Event("none", 0, 0, JNull, "none", <<>>, FALSE)

Init == StoreInit /\ DashInit /\ BridgeInit

----------------------------------------------------------------------------
(* SpecStore: the store's cache operations called in any order, at clock    *)
(* readings 0, 1 or TTL - 1 milliseconds after the previous call.          *)

M1 == [center |-> "c1", zoom |-> 13]

StoreQueries == {<<"a">>, <<"A">>, <<" ", "a", " ">>, <<"b">>}
StoreParams == {TextParams(q) : q \in StoreQueries}
StoreResults == {<<"p1">>}
StoreDelays == {0, 1, Jump}
StoreClock(d) == ClockAllows(d, StoreMaxTicks, StoreMaxJumps)

StoreSaveResults ==
    \E d \in StoreDelays, p \in StoreParams, r \in StoreResults :
        /\ StoreClock(d)
        /\ saveResults(p, r, Null, d)
        /\ UNCHANGED <<writes, dashVars, bridgeVars>>

StoreGetResults ==
    \E d \in StoreDelays, p \in StoreParams :
        /\ StoreClock(d)
        /\ CallGetResults(p, d)
        /\ UNCHANGED <<writes, dashVars, bridgeVars>>

StoreGetResultsOrLast ==
    \E d \in StoreDelays, p \in StoreParams \cup {Null} :
        /\ StoreClock(d)
        /\ CallGetResultsOrLast(p, d)
        /\ UNCHANGED <<writes, dashVars, bridgeVars>>

StoreGetLast ==
    \E d \in StoreDelays :
        /\ StoreClock(d)
        /\ CallGetLast(d)
        /\ UNCHANGED <<writes, dashVars, bridgeVars>>

StoreSaveMapState ==
    \E d \in StoreDelays, p \in StoreParams \cup {Null} :
        /\ StoreClock(d)
        /\ saveMapState(p, M1, d)
        /\ UNCHANGED <<writes, dashVars, bridgeVars>>

StoreClearAll ==
    \E d \in StoreDelays :
        /\ StoreClock(d)
        /\ clearAll(d)
        /\ UNCHANGED <<writes, dashVars, bridgeVars>>

NextStore ==
    \/ StoreSaveResults
    \/ StoreGetResults
    \/ StoreGetResultsOrLast
    \/ StoreGetLast
    \/ StoreSaveMapState
    \/ StoreClearAll

SpecStore == Init /\ [][NextStore]_vars

----------------------------------------------------------------------------
(* SpecPrefs: the per-place preferences saved and read between the cache    *)
(* operations, at the clock readings of SpecStore.  `writes` keeps, per    *)
(* preference and place, the value its last save was called with.          *)

LastSaved(w, pref, placeId, v) ==
    [k \in DOMAIN w \cup {<<pref, placeId>>} |-> IF k = <<pref, placeId>> THEN v ELSE w[k]]

Places == {"p1", "p2"}
Radii == {NumV(0), NumV(500), StrV(<<"5", "0", "0">>)}
Categories == {StrV(<<>>), StrV(<<"g">>)}
PrefParams == {TextParams(<<"a">>), TextParams(<<"b">>)}

PrefSaveRadius ==
    \E p \in Places, r \in Radii :
        /\ saveRadiusForPlace(p, r, 0)
        /\ writes' = LastSaved(writes, "radius", p, r)
        /\ UNCHANGED <<dashVars, bridgeVars>>

PrefSaveCategory ==
    \E p \in Places, c \in Categories :
        /\ saveCategoryForPlace(p, c, 0)
        /\ writes' = LastSaved(writes, "category", p, c)
        /\ UNCHANGED <<dashVars, bridgeVars>>

PrefGetRadius ==
    \E p \in Places :
        /\ getRadiusForPlace(p, 0)
        /\ UNCHANGED <<writes, dashVars, bridgeVars>>

PrefGetCategory ==
    \E p \in Places :
        /\ getCategoryForPlace(p, 0)
        /\ UNCHANGED <<writes, dashVars, bridgeVars>>

PrefClearAll ==
    \E d \in {0, Jump} :
        /\ StoreClock(d)
        /\ clearAll(d)
        /\ UNCHANGED <<writes, dashVars, bridgeVars>>

NextPrefs ==
    \/ PrefSaveRadius
    \/ PrefSaveCategory
    \/ PrefGetRadius
    \/ PrefGetCategory
    \/ PrefClearAll

SpecPrefs == Init /\ [][NextPrefs]_vars

----------------------------------------------------------------------------
(* SpecFrame: the cache operations of two queries, with their expiry and   *)
(* sweep, around preferences saved for one place.                          *)

FrameParams == {TextParams(<<"a">>), TextParams(<<"b">>)}

FrameSaveRadius ==
    /\ saveRadiusForPlace("p1", NumV(500), 0)
    /\ UNCHANGED <<writes, dashVars, bridgeVars>>

FrameSaveCategory ==
    /\ saveCategoryForPlace("p1", StrV(<<"g">>), 0)
    /\ UNCHANGED <<writes, dashVars, bridgeVars>>

FrameSaveResults ==
    \E d \in StoreDelays, p \in FrameParams :
        /\ StoreClock(d)
        /\ saveResults(p, <<"p1">>, Null, d)
        /\ UNCHANGED <<writes, dashVars, bridgeVars>>

FrameSaveMapState ==
    /\ saveMapState(Null, M1, 0)
    /\ UNCHANGED <<writes, dashVars, bridgeVars>>

FrameGetLast ==
    /\ CallGetLast(0)
    /\ UNCHANGED <<writes, dashVars, bridgeVars>>

FrameMarkRestored ==
    \E flag \in BOOLEAN :
        /\ markRestored(flag, 0)
        /\ UNCHANGED <<writes, dashVars, bridgeVars>>

FrameClearAll ==
    /\ clearAll(0)
    /\ UNCHANGED <<writes, dashVars, bridgeVars>>

NextFrame ==
    \/ FrameSaveRadius
    \/ FrameSaveCategory
    \/ FrameSaveResults
    \/ FrameSaveMapState
    \/ FrameGetLast
    \/ FrameMarkRestored
    \/ FrameClearAll

SpecFrame == Init /\ [][NextFrame]_vars

----------------------------------------------------------------------------
(* SpecKey: getKey called on the params of KeyInputs.                      *)

KeyModes == {Undefined, StrV(<<"text">>), StrV(<<"nearby">>), StrV(<<"geo">>)}
KeyQs == {Undefined, StrV(<<>>), StrV(<<"a">>), StrV(<<" ", "A">>), NumV(0), NumV(42)}
KeyCoords == {Undefined, StrV(<<"1">>), StrV(<<"1", "|", "1">>), StrV(<<" ", "1">>)}
KeyInputs ==
    {NullParams, UndefinedParams}
        \cup {ObjParams(m, q, sw, ne) : m \in KeyModes, q \in KeyQs, sw \in KeyCoords, ne \in KeyCoords}

KeyGetKey ==
    \E p \in KeyInputs :
        /\ getKey(p)
        /\ UNCHANGED <<writes, dashVars, bridgeVars>>

NextKey == KeyGetKey

SpecKey == Init /\ [][NextKey]_vars

----------------------------------------------------------------------------
(* SpecCap: the store filled past MAX_KEYS.  The regular step saves the     *)
(* next query never saved before, one millisecond after the previous call; *)
(* every other call (a save of the next query at the same millisecond or   *)
(* after a Jump, a save of an earlier query, saveMapState, a preference    *)
(* save, clearAll) is counted in `writes`, at most CapMaxOther of them;    *)
(* those calls are made for the first and the latest query saved.          *)

Digit(n) == <<"0", "1", "2", "3", "4", "5", "6", "7", "8", "9">>[n + 1]

CapKeys == MAX_KEYS + ExtraKeys
CapQuery(i) == <<Digit(i \div 10), Digit(i % 10)>>
CapParams(i) == TextParams(CapQuery(i))
CapDelays == {0, 1, Jump}
CapClock(d) == ClockAllows(d, CapKeys + CapMaxOther, CapMaxOther)

Written(op, key, regular) == [op |-> op, key |-> key, ts |-> now', regular |-> regular]

SavedQueries == Cardinality({writes[i].key : i \in {j \in 1..Len(writes) : writes[j].op = "saveResults"}})
OtherCalls == Cardinality({i \in 1..Len(writes) : ~writes[i].regular})
MayCall(regular) == regular \/ OtherCalls < CapMaxOther

CapSaveNext ==
    \E d \in CapDelays :
        /\ SavedQueries < CapKeys
        /\ CapClock(d)
        /\ MayCall(d = 1)
        /\ saveResults(CapParams(SavedQueries + 1), <<"p1">>, Null, d)
        /\ writes' = Append(writes, Written("saveResults", buildKey(CapParams(SavedQueries + 1)), d = 1))
        /\ UNCHANGED <<dashVars, bridgeVars>>

CapSaveAgain ==
    \E d \in CapDelays, i \in {1, SavedQueries} :
        /\ SavedQueries > 0
        /\ CapClock(d)
        /\ MayCall(FALSE)
        /\ saveResults(CapParams(i), <<>>, M1, d)
        /\ writes' = Append(writes, Written("saveResults", buildKey(CapParams(i)), FALSE))
        /\ UNCHANGED <<dashVars, bridgeVars>>

CapSaveMapState ==
    \E d \in CapDelays, p \in {Null, CapParams(1)} :
        /\ CapClock(d)
        /\ MayCall(FALSE)
        /\ saveMapState(p, M1, d)
        /\ writes' = Append(writes, Written("saveMapState", MapStateKey(p), FALSE))
        /\ UNCHANGED <<dashVars, bridgeVars>>

CapSaveRadius ==
    \E d \in CapDelays :
        /\ CapClock(d)
        /\ MayCall(FALSE)
        /\ saveRadiusForPlace("p1", NumV(500), d)
        /\ writes' = Append(writes, Written("saveRadiusForPlace", NoKey, FALSE))
        /\ UNCHANGED <<dashVars, bridgeVars>>

CapSaveCategory ==
    \E d \in CapDelays :
        /\ CapClock(d)
        /\ MayCall(FALSE)
        /\ saveCategoryForPlace("p1", StrV(<<"g", "r", "o", "c", "e", "r", "y">>), d)
        /\ writes' = Append(writes, Written("saveCategoryForPlace", NoKey, FALSE))
        /\ UNCHANGED <<dashVars, bridgeVars>>

CapClearAll ==
    \E d \in CapDelays :
        /\ CapClock(d)
        /\ MayCall(FALSE)
        /\ clearAll(d)
        /\ writes' = Append(writes, Written("clearAll", NoKey, FALSE))
        /\ UNCHANGED <<dashVars, bridgeVars>>

NextCap ==
    \/ CapSaveNext
    \/ CapSaveAgain
    \/ CapSaveMapState
    \/ CapSaveRadius
    \/ CapSaveCategory
    \/ CapClearAll

SpecCap == Init /\ [][NextCap]_vars

----------------------------------------------------------------------------
(* Dashboard: runSearch and the handlers that call it.                     *)
(*                                                                         *)
(* runs[id] is the call of runSearch with issue number id: its params and  *)
(* source, the mapRefState its closure holds, its controller's             *)
(* signal.aborted, where it stands ("hit": returned on the cache check;    *)
(* "pending": awaiting api.get; "ok", "failed", "cancelled": the await     *)
(* resolved, rejected unaborted, rejected aborted) and how many times it   *)
(* called setProperties.                                                   *)

Run(params, source, snap, state, pubs) ==
    [params |-> params, source |-> source, snap |-> snap, aborted |-> FALSE,
     state |-> state, pubs |-> pubs]

(* currentAbortRef.current.abort(), when the ref holds a controller *)
AbortNothing(rs, cur) == rs

AbortCurrent(rs, cur) == IF cur # 0 THEN [rs EXCEPT ![cur].aborted = TRUE] ELSE rs

(* cached?.results?.length *)
IsCacheHitNever(cached) == FALSE

IsCacheHit(cached) == cached # Null /\ Len(cached.results) > 0

(* controller.signal.aborted, in the catch block *)
SupersededNever(run) == FALSE

SupersededAlways(run) == TRUE

IsSuperseded(run) == run.aborted

SearchBanner(params) == [text |-> "Updated from voice agent", mode |-> params.mode]

(* A React state setter: nothing is set once the component is unmounted *)
SetState(old, new) == IF mounted THEN new ELSE old

RunSearchAgentSkipsCache(params, source, d) ==
    LET id == Len(runs) + 1
        cached == getResults(cache, params, now + d)
        hit == source # "agent" /\ IsCacheHit(cached)
        issued == Run(params, source, mapRefState,
                      IF hit THEN "hit" ELSE "pending", IF hit THEN 1 ELSE 0)
    IN  /\ now' = now + d
        /\ runs' = Append(AbortCurrent(runs, currentAbortRef), issued)
        /\ currentAbortRef' = id
        /\ selected' = Null
        /\ IF hit
           THEN /\ properties' = cached.results
                /\ publishedBy' = id
                /\ lastRestored' = TRUE
                /\ loading' = FALSE
                /\ agentBanner' = IF source = "agent" THEN SearchBanner(params)
                                  ELSE agentBanner
           ELSE /\ loading' = TRUE
                /\ UNCHANGED <<properties, publishedBy, lastRestored, agentBanner>>
        /\ UNCHANGED <<cache, lastKey, radiusByPlace, categoryByPlace, ret, writes,
                       mapRefState, mounted, consoleErrors>>

runSearch(params, source, d) ==
    LET id == Len(runs) + 1
        cached == getResults(cache, params, now + d)
        hit == IsCacheHit(cached)
        issued == Run(params, source, mapRefState,
                      IF hit THEN "hit" ELSE "pending", IF hit THEN 1 ELSE 0)
    IN  /\ now' = now + d
        /\ runs' = Append(AbortCurrent(runs, currentAbortRef), issued)
        /\ currentAbortRef' = id
        /\ selected' = Null
        /\ IF hit
           THEN /\ properties' = cached.results
                /\ publishedBy' = id
                /\ lastRestored' = TRUE
                /\ loading' = FALSE
                /\ agentBanner' = IF source = "agent" THEN SearchBanner(params)
                                  ELSE agentBanner
           ELSE /\ loading' = TRUE
                /\ UNCHANGED <<properties, publishedBy, lastRestored, agentBanner>>
        /\ UNCHANGED <<cache, lastKey, radiusByPlace, categoryByPlace, ret, writes,
                       mapRefState, mounted, consoleErrors>>

(* Array.isArray(data?.results) ? data.results : [] *)
ResultsOf(data) == IF data.isArray THEN data.results ELSE <<>>

(* The await resolves: the request was not aborted before its response *)
Resolved(id, data, d) ==
    LET run == runs[id]
        results == ResultsOf(data)
    IN  /\ run.state = "pending"
        /\ ~run.aborted
        /\ runs' = [runs EXCEPT ![id].state = "ok", ![id].pubs = @ + 1]
        /\ properties' = SetState(properties, results)
        /\ publishedBy' = SetState(publishedBy, id)
        /\ saveResults(run.params, results, run.snap, d)
        /\ agentBanner' = IF run.source = "agent"
                          THEN SetState(agentBanner, SearchBanner(run.params))
                          ELSE agentBanner
        /\ loading' = SetState(loading, FALSE)
        /\ UNCHANGED <<selected, mapRefState, currentAbortRef, mounted,
                       consoleErrors, writes>>

(* The await rejects: a network or server error, or, once the controller   *)
(* is aborted, the cancellation                                            *)
Rejected(id) ==
    LET run == runs[id]
    IN  /\ run.state = "pending"
        /\ IF IsSuperseded(run)
           THEN /\ runs' = [runs EXCEPT ![id].state =
                              IF run.aborted THEN "cancelled" ELSE "failed"]
                /\ UNCHANGED <<properties, publishedBy, consoleErrors>>
           ELSE /\ runs' = [runs EXCEPT
                              ![id].state = IF run.aborted THEN "cancelled" ELSE "failed",
                              ![id].pubs = @ + 1]
                /\ consoleErrors' = consoleErrors + 1
                /\ properties' = SetState(properties, <<>>)
                /\ publishedBy' = SetState(publishedBy, id)
        /\ loading' = SetState(loading, FALSE)
        /\ UNCHANGED <<now, ret, storeVars, writes, selected, agentBanner,
                       mapRefState, currentAbortRef, mounted>>

(* handleTextSearch: the form is submitted with `typed` in the input *)
handleTextSearch(typed, d) ==
    LET query == Trim(typed)
    IN  /\ mounted
        /\ query # <<>>
        /\ ~loading
        /\ runSearch(TextParams(query), "user", d)

(* onMsg: window "message" event carrying AGENT_SEARCH with params *)
onAgentSearch(params, d) ==
    /\ mounted
    /\ runSearch(params, "agent", d)

(* The params of a message whose fields are strings or missing, as the     *)
(* records runSearch is modelled on                                        *)
StringOf(v) == IF v.t = "string" THEN v.s ELSE <<>>

SearchParams(params) ==
    [mode |-> IF params.mode = StrV(<<"text">>) THEN "text" ELSE "nearby",
     q |-> StringOf(params.q), sw |-> StringOf(params.sw), ne |-> StringOf(params.ne)]

(* runSearch on params for which getResults(params) throws: the statements *)
(* before the cache check have run, the try block is never entered and     *)
(* the promise of runSearch rejects.  No request is issued: the ref holds  *)
(* a controller no request listens to, written 0.                          *)
runSearchThrows ==
    /\ runs' = AbortCurrent(runs, currentAbortRef)
    /\ currentAbortRef' = 0
    /\ loading' = TRUE
    /\ selected' = Null
    /\ UNCHANGED <<now, ret, storeVars, writes, properties, publishedBy, agentBanner,
                   mapRefState, mounted, consoleErrors>>

(* onMsg: AGENT_SEARCH with any params object: a text search whose q is    *)
(* anything, or a nearby search                                            *)
onAgentSearchAny(params, d) ==
    /\ mounted
    /\ IF buildKeyAny(params).threw
       THEN runSearchThrows
       ELSE runSearch(SearchParams(params), "agent", d)

(* onMsg: window "message" event carrying AGENT_RESULTS with data *)
onAgentResults(data) ==
    /\ mounted
    /\ properties' = ResultsOf(data)
    /\ publishedBy' = -1
    /\ lastRestored' = FALSE
    /\ agentBanner' = [text |-> "Updated from voice agent", mode |-> ""]
    /\ UNCHANGED <<now, ret, cache, lastKey, radiusByPlace, categoryByPlace,
                   loading, selected, mapRefState, currentAbortRef, runs, mounted,
                   consoleErrors>>

(* The 3500 ms timer of the banner effect fires *)
bannerTimeout ==
    /\ mounted
    /\ agentBanner # Null
    /\ agentBanner' = Null
    /\ UNCHANGED <<now, ret, storeVars, writes, loading, properties, selected,
                   mapRefState, currentAbortRef, runs, mounted, consoleErrors,
                   publishedBy>>

(* MapView onSelect: a marker of a published place is clicked *)
onSelect(i) ==
    /\ mounted
    /\ i \in 1..Len(properties)
    /\ selected' = [id |-> properties[i]]
    /\ UNCHANGED <<now, ret, storeVars, writes, loading, properties, agentBanner,
                   mapRefState, currentAbortRef, runs, mounted, consoleErrors,
                   publishedBy>>

(* Cleanup of the unmount effect: abort the request in flight *)
unmount ==
    /\ mounted
    /\ mounted' = FALSE
    /\ runs' = AbortCurrent(runs, currentAbortRef)
    /\ UNCHANGED <<now, ret, storeVars, writes, loading, properties, selected,
                   agentBanner, mapRefState, currentAbortRef, consoleErrors,
                   publishedBy>>

(* (sp.get("mode") || "").toLowerCase(), on the modes of the model *)
LowerMode(mode) ==
    IF mode = "TEXT" THEN "text" ELSE IF mode = "NEARBY" THEN "nearby" ELSE mode

(* The params the URL effect searches for, Null when it calls nothing *)
UrlSearch(loc) ==
    IF loc = Null THEN Null
    ELSE LET mode == LowerMode(loc.mode)
             qParam == Trim(loc.q)
         IN  IF mode = "text" /\ qParam # <<>> THEN TextParams(qParam)
             ELSE IF mode = "nearby" /\ loc.sw # <<>> /\ loc.ne # <<>>
                  THEN NearbyParams(loc.sw, loc.ne)
                  ELSE Null

EffectDeps(search, id) == [ran |-> TRUE, search |-> search, runSearch |-> id]

(* useEffect(..., [location.search, runSearch]): runs after the first      *)
(* render and after each render in which a dependency changed              *)
urlEffect(d) ==
    /\ mounted
    /\ urlEffectDeps # EffectDeps(location, runSearchId)
    /\ urlEffectDeps' = EffectDeps(location, runSearchId)
    /\ IF UrlSearch(location) # Null
       THEN runSearch(UrlSearch(location), "agent", d)
       ELSE UNCHANGED <<now, ret, storeVars, writes, loading, properties, selected,
                        agentBanner, mapRefState, currentAbortRef, runs, mounted,
                        consoleErrors, publishedBy>>
    /\ UNCHANGED <<location, runSearchId>>

(* handleMapLoad, `save`: the map's idle event.  paramsGuess is built from *)
(* the q and mapBounds of the render that loaded the map.  mapRefState is *)
(* set to a new object, so the render that follows renews runSearch.       *)
mapIdle(paramsGuess, mapState, d) ==
    /\ mounted
    /\ saveMapState(paramsGuess, mapState, d)
    /\ mapRefState' = mapState
    /\ runSearchId' = runSearchId + 1
    /\ UNCHANGED <<writes, loading, properties, selected, agentBanner,
                   currentAbortRef, runs, mounted, consoleErrors, publishedBy,
                   location, urlEffectDeps>>

(* The router moves to a URL with other search params *)
navigate(loc) ==
    /\ mounted
    /\ location # loc
    /\ location' = loc
    /\ UNCHANGED <<now, ret, storeVars, writes, loading, properties, selected,
                   agentBanner, mapRefState, currentAbortRef, runs, mounted,
                   consoleErrors, publishedBy, runSearchId, urlEffectDeps>>

----------------------------------------------------------------------------
(* onMsg of the Dashboard with the agent's UI commands: the window's       *)
(* "message" listener.  A message has a type, data and params (Null when   *)
(* it lacks them), an action (a string, a number, or missing) and the      *)
(* payload fields the dispatcher reads ("" or <<>> when missing).  A      *)
(* number given as action is not 0.                                        *)

Msg(type, data, params, action, payload) ==
    [type |-> type, data |-> data, params |-> params, action |-> action,
     payload |-> payload]

ActionStr(name) == [t |-> "string", name |-> name]
ActionNum == [t |-> "number", name |-> ""]
NoAction == [t |-> "undefined", name |-> ""]

Payload(id, mode, q, sw, ne, text) ==
    [id |-> id, mode |-> mode, q |-> q, sw |-> sw, ne |-> ne, text |-> text]
NoPayload == Payload("", "", <<>>, <<>>, <<>>, "")

(* msg.action.toUpperCase(), on the action names of the model *)
ToUpperCase(name) ==
    CASE name = "select_by_id" -> "SELECT_BY_ID"
      [] name = "open_listing" -> "OPEN_LISTING"
      [] OTHER -> name

(* properties.find((x) => x.id === p.id) || null *)
Find(props, id) ==
    IF \E i \in 1..Len(props) : props[i] = id THEN [id |-> id] ELSE Null

(* if (found) setSelected(found) *)
SelectFoundOrClear(found) == found

SelectFound(found) == IF found # Null THEN found ELSE selected

(* The URL of NAVIGATE_SEARCH, as the search params the router parses *)
SearchUrl(p) ==
    [mode |-> p.mode,
     q |-> IF p.mode = "text" THEN p.q ELSE <<>>,
     sw |-> IF p.mode = "nearby" /\ p.sw # <<>> /\ p.ne # <<>> THEN p.sw ELSE <<>>,
     ne |-> IF p.mode = "nearby" /\ p.sw # <<>> /\ p.ne # <<>> THEN p.ne ELSE <<>>]

(* What a dispatch did besides setting state: a call of navigate or of the *)
(* map instance, and whether the listener ended on a TypeError             *)
Dispatched(msg, call, threw) ==
    Event("onMsg", event.inst + 1, 0, msg, "none", call, threw)

(* 3) Agent UI commands *)
onAgentUi(msg) ==
    LET a == ToUpperCase(msg.action.name)
        p == msg.payload
    IN  IF msg.action.t # "string"
        THEN /\ event' = Dispatched(msg, <<>>, TRUE)
             /\ UNCHANGED <<selected, agentBanner, location>>
        ELSE IF a = "OPEN_LISTING" /\ p.id # ""
        THEN /\ location' = Null
             /\ event' = Dispatched(msg, <<"navigate", "listing", p.id>>, FALSE)
             /\ UNCHANGED <<selected, agentBanner>>
        ELSE IF a = "SELECT_BY_ID" /\ p.id # ""
        THEN /\ selected' = SelectFound(Find(properties, p.id))
             /\ event' = Dispatched(msg, <<>>, FALSE)
             /\ UNCHANGED <<agentBanner, location>>
        ELSE IF a = "FOCUS_MAP"
        THEN /\ event' = Dispatched(msg, <<"panTo">>, FALSE)
             /\ UNCHANGED <<selected, agentBanner, location>>
        ELSE IF a = "NAVIGATE_SEARCH" /\ p.mode # ""
        THEN /\ location' = SearchUrl(p)
             /\ event' = Dispatched(msg, <<"navigate", "dashboard">>, FALSE)
             /\ UNCHANGED <<selected, agentBanner>>
        ELSE IF a = "SHOW_BANNER" /\ p.text # ""
        THEN /\ agentBanner' = [text |-> p.text, mode |-> ""]
             /\ event' = Dispatched(msg, <<>>, FALSE)
             /\ UNCHANGED <<selected, location>>
        ELSE /\ event' = Dispatched(msg, <<>>, FALSE)
             /\ UNCHANGED <<selected, agentBanner, location>>

onMsg(msg, d) ==
    /\ mounted
    /\ IF msg.type = "AGENT_RESULTS" /\ msg.data # Null
       THEN /\ onAgentResults(msg.data)
            /\ event' = Dispatched(msg, <<>>, FALSE)
            /\ UNCHANGED <<writes, navVars>>
       ELSE IF msg.type = "AGENT_SEARCH" /\ msg.params # Null
       THEN /\ onAgentSearchAny(msg.params, d)
            /\ event' = Dispatched(msg, <<>>, FALSE)
            /\ UNCHANGED navVars
       ELSE IF msg.type = "AGENT_UI" /\ msg.action # NoAction
                                     /\ msg.action # ActionStr("")
       THEN /\ onAgentUi(msg)
            /\ UNCHANGED <<now, ret, storeVars, writes, loading, properties,
                           mapRefState, currentAbortRef, runs, mounted,
                           consoleErrors, publishedBy, runSearchId, urlEffectDeps>>
       ELSE /\ event' = Dispatched(msg, <<>>, FALSE)
            /\ UNCHANGED <<now, ret, storeVars, writes, dashVars>>
    /\ UNCHANGED <<insts, sockets>>

----------------------------------------------------------------------------
(* Spec: the Dashboard on an empty store.  A handler that reads the clock   *)
(* reads it at the last reading or PastTtl milliseconds later.             *)

PastTtl == TTL_MS + 1
SpecDelays == {0, PastTtl}
SpecClock(d) == d = 0 \/ now - T0 < MaxJumps * PastTtl

Typed == {<<"a">>, <<" ", "A">>, <<" ">>}
AgentParams == {TextParams(<<"a">>), NearbyParams(<<"1">>, <<"2">>)}
Responses == {[isArray |-> TRUE, results |-> <<>>],
              [isArray |-> TRUE, results |-> <<"p1">>],
              [isArray |-> FALSE, results |-> <<>>]}

UserTextSearch ==
    \E d \in SpecDelays, typed \in Typed :
        /\ SpecClock(d) /\ Len(runs) < MaxRuns /\ handleTextSearch(typed, d)
        /\ UNCHANGED <<bridgeVars, navVars>>

AgentSearch ==
    \E d \in SpecDelays, p \in AgentParams :
        /\ SpecClock(d) /\ Len(runs) < MaxRuns /\ onAgentSearch(p, d)
        /\ UNCHANGED <<bridgeVars, navVars>>

AgentResults ==
    \E data \in Responses :
        onAgentResults(data) /\ UNCHANGED <<writes, bridgeVars, navVars>>

SearchResolves ==
    \E d \in SpecDelays, id \in 1..Len(runs), data \in Responses :
        /\ SpecClock(d) /\ Resolved(id, data, d)
        /\ UNCHANGED <<bridgeVars, navVars>>

SearchRejects ==
    \E id \in 1..Len(runs) : Rejected(id) /\ UNCHANGED <<bridgeVars, navVars>>

BannerTimeout == bannerTimeout /\ UNCHANGED <<bridgeVars, navVars>>

SelectMarker ==
    \E i \in 1..Len(properties) : onSelect(i) /\ UNCHANGED <<bridgeVars, navVars>>

Unmount == unmount /\ UNCHANGED <<bridgeVars, navVars>>

Next ==
    \/ UserTextSearch
    \/ AgentSearch
    \/ AgentResults
    \/ SearchResolves
    \/ SearchRejects
    \/ BannerTimeout
    \/ SelectMarker
    \/ Unmount

Spec == Init /\ [][Next]_vars

----------------------------------------------------------------------------
(* SpecMsg: the Dashboard receiving window messages of every type the      *)
(* bridge lets through, while its searches complete, all at one clock      *)
(* reading.                                                                *)

MaxMsgs == 3
MsgMaxRuns == 2

UiMsg(name, payload) == Msg("AGENT_UI", Null, Null, ActionStr(name), payload)
IdPayload(id) == Payload(id, "", <<>>, <<>>, <<>>, "")

PingMsg == Msg("AGENT_PING", Null, Null, NoAction, NoPayload)
LogMsg == Msg("AGENT_LOG", Null, Null, NoAction, NoPayload)
UnknownUiMsg == UiMsg("zoom_in", IdPayload("p1"))
NumberUiMsg == Msg("AGENT_UI", Null, Null, ActionNum, NoPayload)
SelectUnknownMsg == UiMsg("SELECT_BY_ID", IdPayload("p9"))

WindowMessages ==
    {PingMsg, LogMsg, UnknownUiMsg, NumberUiMsg, SelectUnknownMsg,
     UiMsg("select_by_id", IdPayload("p1")),
     UiMsg("OPEN_LISTING", IdPayload("p1")),
     UiMsg("FOCUS_MAP", NoPayload),
     UiMsg("NAVIGATE_SEARCH", Payload("", "text", <<"a">>, <<>>, <<>>, "")),
     UiMsg("SHOW_BANNER", Payload("", "", <<>>, <<>>, <<>>, "hi")),
     Msg("AGENT_RESULTS", [isArray |-> TRUE, results |-> <<"p1">>], Null,
         NoAction, NoPayload),
     Msg("AGENT_RESULTS", Null, Null, NoAction, NoPayload),
     Msg("AGENT_SEARCH", Null,
         ObjParams(StrV(<<"text">>), StrV(<<"a">>), Undefined, Undefined),
         NoAction, NoPayload)}

MsgDispatch ==
    \E msg \in WindowMessages :
        /\ event.inst < MaxMsgs
        /\ Len(runs) < MsgMaxRuns
        /\ onMsg(msg, 0)

MsgSearchResolves ==
    \E id \in 1..Len(runs), data \in Responses :
        /\ Resolved(id, data, 0)
        /\ UNCHANGED <<bridgeVars, navVars>>

MsgSearchRejects ==
    \E id \in 1..Len(runs) : Rejected(id) /\ UNCHANGED <<bridgeVars, navVars>>

MsgBannerTimeout == bannerTimeout /\ UNCHANGED <<bridgeVars, navVars>>

NextMsg ==
    \/ MsgDispatch
    \/ MsgSearchResolves
    \/ MsgSearchRejects
    \/ MsgBannerTimeout

SpecMsg == Init /\ [][NextMsg]_vars

----------------------------------------------------------------------------
(* SpecNav: the Dashboard opened on a URL, with the map going idle, user   *)
(* searches, results pushed by the agent and navigation, all at one clock  *)
(* reading.                                                                *)

NavMaxRuns == 3
MaxIdles == 1

Locations == {TextParams(<<" ", "a">>), NearbyParams(<<"1">>, <<"2">>)}
NavTyped == {<<"b">>}
NavGuesses == {TextParams(<<>>)}
NavResponses == {[isArray |-> TRUE, results |-> <<"p1">>]}

NavNavigate ==
    \E loc \in Locations : navigate(loc) /\ UNCHANGED bridgeVars

NavUrlEffect ==
    /\ Len(runs) < NavMaxRuns
    /\ urlEffect(0)
    /\ UNCHANGED bridgeVars

NavMapIdle ==
    \E g \in NavGuesses :
        /\ runSearchId < MaxIdles
        /\ mapIdle(g, M1, 0)
        /\ UNCHANGED bridgeVars

NavUserSearch ==
    \E typed \in NavTyped :
        /\ Len(runs) < NavMaxRuns
        /\ handleTextSearch(typed, 0)
        /\ UNCHANGED <<bridgeVars, navVars>>

NavSearchResolves ==
    \E id \in 1..Len(runs), data \in NavResponses :
        /\ Resolved(id, data, 0)
        /\ UNCHANGED <<bridgeVars, navVars>>

NavSearchRejects ==
    \E id \in 1..Len(runs) : Rejected(id) /\ UNCHANGED <<bridgeVars, navVars>>

(* `writes` keeps how many runs had been issued at the last push *)
NavAgentResults ==
    \E data \in NavResponses :
        /\ onAgentResults(data)
        /\ writes' = <<Len(runs)>>
        /\ UNCHANGED <<bridgeVars, navVars>>

NavAgentParams ==
    {ObjParams(StrV(<<"text">>), StrV(<<"a">>), Undefined, Undefined),
     ObjParams(StrV(<<"text">>), NumV(42), Undefined, Undefined)}

NavAgentSearch ==
    \E p \in NavAgentParams :
        /\ Len(runs) < NavMaxRuns
        /\ onAgentSearchAny(p, 0)
        /\ UNCHANGED <<bridgeVars, navVars>>

NextNav ==
    \/ NavNavigate
    \/ NavAgentSearch
    \/ NavAgentResults
    \/ NavUrlEffect
    \/ NavMapIdle
    \/ NavUserSearch
    \/ NavSearchResolves
    \/ NavSearchRejects

SpecNav == Init /\ [][NextNav]_vars

----------------------------------------------------------------------------
(* Agent bridge: the transports that receive agent messages and forward    *)
(* them to the application.                                                *)
(*                                                                         *)
(* A transport is one run of an effect: kind "poll" is the polling         *)
(* AgentBridge that validates against `allowed`, "pollPending" the polling *)
(* AgentBridge that reads only { pending, message }, "socket" the          *)
(* AgentBridge on startAgentSocket ("socketNoOrigin": with no origin       *)
(* configured), "socketApp" the effect of App on connectAgentSocket.       *)
(* insts[i]: closed and stop are the flags of those names, ws the socket   *)
(* the variable ws (or wsRef.current) holds, 0 when none; loop is where    *)
(* tick stands ("fetching": awaiting fetch; "sleeping": awaiting the timer; *)
(* "done": returned); stops tells whether the teardown function was called *)
(* never (0), once (1) or more than once (2).  sockets[s]: readyState, and *)
(* whether the timer its onclose handler set is still to fire.             *)

PollKinds == {"poll", "pollPending"}
SocketKinds == {"socket", "socketApp"}
Kinds == PollKinds \cup SocketKinds \cup {"socketNoOrigin"}

Inst(kind, ws, loop) ==
    [kind |-> kind, closed |-> FALSE, stop |-> FALSE, ws |-> ws, loop |-> loop,
     stops |-> 0]

(* new WebSocket(url), by transport i *)
NewSocket(i) == [inst |-> i, state |-> "connecting", retry |-> FALSE, pinged |-> FALSE]

(* apply of the validating bridge: the messages it posts *)
apply(msg) ==
    IF ~Truthy(msg) \/ ~IsObjectType(msg) \/ ~HasType(msg) THEN <<>>
    ELSE IF msg.type[1] \notin allowed THEN <<>>
    ELSE <<msg>>

(* apply of the { pending, message } bridge *)
applyPending(msg) == IF ~Truthy(msg) \/ ~HasType(msg) THEN <<>> ELSE <<msg>>

(* data.forEach((m) => apply(m)) *)
RECURSIVE forEach(_)
forEach(items) ==
    IF items = <<>> THEN <<>> ELSE apply(Head(items)) \o forEach(Tail(items))

(* data.message is truthy *)
HasMessage(data) == data.message # <<>> /\ Truthy(data.message[1])

(* tick of the validating bridge, on the parsed body of an OK response *)
Dispatch(data) ==
    IF data.pending /\ HasMessage(data) THEN apply(data.message[1])
    ELSE IF data.t = "arr" THEN forEach(data.items)
    ELSE IF Truthy(data) /\ IsObjectType(data) /\ HasType(data) THEN apply(data)
    ELSE <<>>

(* tick of the { pending, message } bridge *)
DispatchPending(data) ==
    IF data.pending /\ HasMessage(data) THEN applyPending(data.message[1]) ELSE <<>>

(* A poll response: fetch rejected ("error"), r.ok false ("notok"), r.json *)
(* rejected ("badjson"), or an OK response with the parsed body `data`,    *)
(* in which the server put its message in the given shape (for a failure   *)
(* the shape repeats the status)                                           *)
PollResponse(status, shape, data) == [status |-> status, shape |-> shape, data |-> data]

(* The body of tick's try block: what it posts *)
PollForwards(kind, resp) ==
    IF resp.status # "ok" THEN <<>>
    ELSE IF kind = "poll" THEN Dispatch(resp.data)
    ELSE DispatchPending(resp.data)

(* ws.onmessage: JSON.parse(e.data) handed on whole; a text that does not  *)
(* parse is caught                                                         *)
onmessage(raw) == IF raw.t = "bad" THEN <<>> ELSE <<raw>>

WsCloseReopens(sock) == [sock EXCEPT !.state = "closing"]

(* ws.close() *)
WsClose(sock) ==
    IF sock.state \in {"connecting", "open"} THEN [sock EXCEPT !.state = "closing"]
    ELSE sock

OnCloseNeverRetries(inst) == FALSE

(* ws.onclose: whether it sets the reconnect timer *)
OnClose(inst) == IF inst.kind = "socket" THEN ~inst.closed ELSE TRUE

LoopContinuesAlways(inst) == TRUE

(* while (!stop) *)
LoopContinues(inst) == ~inst.stop

AfterResponseFetchesAtOnce(resp) == "fetching"

AfterResponseExitsOnFailure(resp) == IF resp.status = "ok" THEN "sleeping" ELSE "done"

(* tick after the try/catch: await the 1500 ms timer *)
AfterResponse(resp) == "sleeping"

(* The effect runs: AgentBridge or App mounts *)
Start(kind) ==
    /\ \A i \in 1..Len(insts) : insts[i].stops > 0
    /\ IF kind \in SocketKinds
       THEN /\ insts' = Append(insts, Inst(kind, Len(sockets) + 1, "none"))
            /\ sockets' = Append(sockets, NewSocket(Len(insts) + 1))
       ELSE IF kind \in PollKinds
       THEN /\ insts' = Append(insts, Inst(kind, 0, "fetching"))
            /\ UNCHANGED sockets
       ELSE /\ insts' = Append(insts, Inst(kind, 0, "none"))
            /\ UNCHANGED sockets
    /\ event' = Event("start", Len(insts) + 1, 0, JNull, "none", <<>>, FALSE)

(* The function the effect returns, called on transport i *)
Teardown(i) ==
    LET inst == insts[i]
        closes == inst.kind \in SocketKinds /\ inst.ws # 0
    IN  /\ insts' = [insts EXCEPT ![i] =
                        [inst EXCEPT !.stops = IF @ = 0 THEN 1 ELSE 2,
                                     !.closed = IF inst.kind = "socket" THEN TRUE ELSE @,
                                     !.stop = IF inst.kind \in PollKinds THEN TRUE ELSE @,
                                     !.ws = IF inst.kind = "socketApp" THEN 0 ELSE @]]
        /\ sockets' = IF closes
                      THEN [sockets EXCEPT ![inst.ws] = WsClose(sockets[inst.ws])]
                      ELSE sockets
        /\ event' = Event("stop", i, 0, JNull, "none", <<>>, FALSE)

(* ws.onopen *)
WsOpen(s) ==
    /\ sockets[s].state = "connecting"
    /\ sockets' = [sockets EXCEPT ![s].state = "open",
                                  ![s].pinged = insts[sockets[s].inst].kind = "socket"]
    /\ event' = Event("open", sockets[s].inst, s, JNull, "none", <<>>, FALSE)
    /\ UNCHANGED insts

(* ws.onmessage with the frame text raw *)
WsMessage(s, raw) ==
    /\ sockets[s].state = "open"
    /\ event' = Event("message", sockets[s].inst, s, raw, "frame", onmessage(raw), FALSE)
    /\ UNCHANGED <<insts, sockets>>

(* The connection ends (failed attempt, error, close by either side):      *)
(* ws.onerror, then ws.onclose                                             *)
WsClosed(s) ==
    /\ sockets[s].state \in {"connecting", "open", "closing"}
    /\ sockets' = [sockets EXCEPT ![s].state = "closed",
                                  ![s].retry = OnClose(insts[sockets[s].inst])]
    /\ event' = Event("close", sockets[s].inst, s, JNull, "none", <<>>, FALSE)
    /\ UNCHANGED insts

(* The timer of onclose fires: connect() / connectAgentSocket(onMessage) *)
Reconnect(s) ==
    LET i == sockets[s].inst
    IN  /\ sockets[s].retry
        /\ sockets' = Append([sockets EXCEPT ![s].retry = FALSE], NewSocket(i))
        /\ insts' = IF insts[i].kind = "socket"
                    THEN [insts EXCEPT ![i].ws = Len(sockets) + 1]
                    ELSE insts
        /\ event' = Event("reconnect", i, Len(sockets) + 1, JNull, "none", <<>>, FALSE)

(* The fetch of tick settles with resp *)
PollSettles(i, resp) ==
    /\ insts[i].loop = "fetching"
    /\ insts' = [insts EXCEPT ![i].loop = AfterResponse(resp)]
    /\ event' = Event("response", i, 0, resp.data, resp.shape,
                      PollForwards(insts[i].kind, resp), FALSE)
    /\ UNCHANGED sockets

(* The 1500 ms timer of tick fires: the loop condition, then the next fetch *)
PollWakes(i) ==
    /\ insts[i].loop = "sleeping"
    /\ insts' = IF LoopContinues(insts[i])
                THEN [insts EXCEPT ![i].loop = "fetching"]
                ELSE [insts EXCEPT ![i].loop = "done"]
    /\ event' = Event("wake", i, 0, JNull, "none", <<>>, FALSE)
    /\ UNCHANGED sockets

----------------------------------------------------------------------------
(* SpecBridge: one component mounted, its effect run again after each      *)
(* cleanup (so every transport is of the same kind), the connections       *)
(* opening, receiving and closing and the timers firing in any order.      *)

M_SEARCH == JObj(<<"AGENT_SEARCH">>, FALSE, <<>>, 1)
M_UI == JObj(<<"AGENT_UI">>, FALSE, <<>>, 2)
M_NAVIGATE == JObj(<<"navigate">>, FALSE, <<>>, 3)
M_FOO == JObj(<<>>, FALSE, <<>>, 4)
M_LOG == JObj(<<"AGENT_LOG">>, TRUE, <<JStr>>, 5)
Messages == {M_SEARCH, M_UI, M_NAVIGATE, M_FOO, M_LOG, JNull, JStr}

Frames == Messages \cup {Bad, JArr(<<M_SEARCH, M_UI>>)}

Wrapped(m) == JObj(<<>>, TRUE, <<m>>, 0)

PollFailures == {"error", "notok", "badjson"}

PollResponses ==
    {PollResponse(st, st, JNull) : st \in PollFailures}
    \cup {PollResponse("ok", "pending", Wrapped(m)) : m \in Messages}
    \cup {PollResponse("ok", "array", JArr(<<m>>)) : m \in Messages}
    \cup {PollResponse("ok", "direct", m) : m \in Messages}
    \cup {PollResponse("ok", "array", JArr(items)) :
            items \in {<<>>, <<M_UI, M_SEARCH>>, <<M_SEARCH, M_FOO, M_UI>>}}

BridgeStart ==
    \E kind \in Kinds :
        /\ Len(insts) < MaxStarts
        /\ \A i \in 1..Len(insts) : insts[i].kind = kind
        /\ kind \in SocketKinds => Len(sockets) < MaxSockets
        /\ Start(kind)
        /\ UNCHANGED <<now, ret, storeVars, writes, dashVars>>

BridgeTeardown ==
    \E i \in 1..Len(insts) :
        /\ Teardown(i)
        /\ UNCHANGED <<now, ret, storeVars, writes, dashVars>>

SocketOpens ==
    \E s \in 1..Len(sockets) :
        WsOpen(s) /\ UNCHANGED <<now, ret, storeVars, writes, dashVars>>

SocketMessage ==
    \E s \in 1..Len(sockets), raw \in Frames :
        WsMessage(s, raw) /\ UNCHANGED <<now, ret, storeVars, writes, dashVars>>

SocketCloses ==
    \E s \in 1..Len(sockets) :
        WsClosed(s) /\ UNCHANGED <<now, ret, storeVars, writes, dashVars>>

ReconnectTimer ==
    \E s \in 1..Len(sockets) :
        /\ Len(sockets) < MaxSockets
        /\ Reconnect(s)
        /\ UNCHANGED <<now, ret, storeVars, writes, dashVars>>

PollResponds ==
    \E i \in 1..Len(insts), resp \in PollResponses :
        PollSettles(i, resp) /\ UNCHANGED <<now, ret, storeVars, writes, dashVars>>

PollTimer ==
    \E i \in 1..Len(insts) :
        /\ PollWakes(i)
        /\ UNCHANGED <<now, ret, storeVars, writes, dashVars>>

NextBridge ==
    \/ BridgeStart
    \/ BridgeTeardown
    \/ SocketOpens
    \/ SocketMessage
    \/ SocketCloses
    \/ ReconnectTimer
    \/ PollResponds
    \/ PollTimer

SpecBridge == Init /\ [][NextBridge]_vars

----------------------------------------------------------------------------
(* Claims on the store                                                     *)

ReadOps == {"getResults", "getResultsOrLast", "getLast"}

(* C3: in every state reachable from the empty store by saveResults,       *)
(* saveMapState, preference saves and clearAll at any times, the cache     *)
(* mapping holds at most MAX_KEYS entries.                                 *)
C3_AtMostMaxKeys == Len(cache) <= MAX_KEYS

(* More than MAX_KEYS queries were saved and the mapping is full. *)
C3_Witness ==
    /\ SavedQueries > MAX_KEYS
    /\ Len(cache) = MAX_KEYS
    /\ ret.op = "saveResults"

(* C4: no read (getResults, getResultsOrLast, getLast) returns an entry    *)
(* whose age now - ts exceeds the TTL, also when the entry is still in the *)
(* mapping because no write has swept it.                                  *)
C4_NoExpiredRead ==
    (ret.op \in ReadOps /\ ret.value # Null) => now - ret.value.ts <= TTL_MS

(* getResultsOrLast found the asked entry and the last entry both in the   *)
(* mapping, both older than the TTL, and returned not-found.               *)
C4_Witness ==
    /\ ret.op = "getResultsOrLast"
    /\ ret.arg # Null
    /\ ret.value = Null
    /\ buildKey(ret.arg) \in Keys(cache)
    /\ lastKey \in Keys(cache)
    /\ lastKey # buildKey(ret.arg)
    /\ \A i \in 1..Len(cache) : now - cache[i].val.ts > TTL_MS

(* C5: an entry saved at time T and untouched since is returned by         *)
(* getResults(params) when now - T < TTL and is not found when             *)
(* now - T > TTL.                                                          *)
C5_TtlBoundary ==
    ret.op = "getResults" =>
        \A i \in 1..Len(cache) :
            cache[i].val.params = ret.arg =>
                /\ now - cache[i].val.ts < TTL_MS => ret.value = cache[i].val
                /\ now - cache[i].val.ts > TTL_MS => ret.value = Null

(* getResults was called one millisecond past the TTL of the entry saved   *)
(* with the same params, and did not find it.                              *)
C5_Witness ==
    /\ ret.op = "getResults"
    /\ ret.value = Null
    /\ \E i \in 1..Len(cache) :
          /\ cache[i].val.params = ret.arg
          /\ now - cache[i].val.ts = TTL_MS + 1

(* getResults was called one millisecond before the TTL of the entry, and  *)
(* returned it.                                                            *)
C5_WitnessFresh ==
    /\ ret.op = "getResults"
    /\ \E i \in 1..Len(cache) :
          /\ cache[i].val.params = ret.arg
          /\ now - cache[i].val.ts = TTL_MS - 1
          /\ ret.value = cache[i].val

(* C6: after saveResults for N > MAX_KEYS distinct keys with strictly      *)
(* increasing timestamps, none of them expired, the store holds exactly    *)
(* MAX_KEYS entries: those with the largest timestamps.                    *)
OnlyIncreasingSaves ==
    /\ \A i \in 1..Len(writes) : writes[i].op = "saveResults"
    /\ \A i, j \in 1..Len(writes) :
          i < j => writes[i].key # writes[j].key /\ writes[i].ts < writes[j].ts
    /\ \A i \in 1..Len(writes) : now - writes[i].ts <= TTL_MS

C6_KeepsNewest ==
    (Len(writes) > MAX_KEYS /\ OnlyIncreasingSaves) =>
        /\ Len(cache) = MAX_KEYS
        /\ Keys(cache) =
              {writes[i].key : i \in (Len(writes) - MAX_KEYS + 1)..Len(writes)}

(* MAX_KEYS + 2 queries were saved in a row, each at a later millisecond. *)
C6_Witness ==
    /\ Len(writes) = MAX_KEYS + 2
    /\ OnlyIncreasingSaves
    /\ buildKey(CapParams(1)) \notin Keys(cache)
    /\ buildKey(CapParams(2)) \notin Keys(cache)
    /\ buildKey(CapParams(3)) \in Keys(cache)

(* C7: two text queries that differ only in letter case or in leading or   *)
(* trailing whitespace have the same key, so getResults with one returns   *)
(* the entry saved with the other.                                         *)
Chars == {"a", "A", "b", " "}
MaxQueryLen == 2
Queries == UNION {[1..n -> Chars] : n \in 0..MaxQueryLen} \cup StoreQueries

SameLetter(c1, c2) == c1 = c2 \/ {c1, c2} \in {{"a", "A"}, {"b", "B"}}

AllSpaces(s, from, to) == \A i \in from..to : s[i] = " "

(* q1 and q2 are each some whitespace, a core, some whitespace, and the    *)
(* cores are equal letter by letter up to case                             *)
SameButCaseAndSpace(q1, q2) ==
    \E a1 \in 1..(Len(q1) + 1), a2 \in 1..(Len(q2) + 1) :
        \E n \in 0..Len(q1) :
            /\ a1 + n - 1 <= Len(q1)
            /\ a2 + n - 1 <= Len(q2)
            /\ AllSpaces(q1, 1, a1 - 1) /\ AllSpaces(q1, a1 + n, Len(q1))
            /\ AllSpaces(q2, 1, a2 - 1) /\ AllSpaces(q2, a2 + n, Len(q2))
            /\ \A i \in 0..(n - 1) : SameLetter(q1[a1 + i], q2[a2 + i])

KeysCollapse ==
    \A q1, q2 \in Queries :
        SameButCaseAndSpace(q1, q2) => buildKey(TextParams(q1)) = buildKey(TextParams(q2))

C7_KeyCollapse ==
    /\ KeysCollapse
    /\ ret.op = "getResults" =>
          \A i \in 1..Len(cache) :
              (/\ cache[i].val.params.mode = "text"
               /\ ret.arg.mode = "text"
               /\ SameButCaseAndSpace(cache[i].val.params.q, ret.arg.q)
               /\ now - cache[i].val.ts <= TTL_MS) => ret.value = cache[i].val

(* The entry saved for "A" was returned by getResults for " a ". *)
C7_Witness ==
    /\ ret.op = "getResults"
    /\ ret.arg = TextParams(<<" ", "a", " ">>)
    /\ ret.value # Null
    /\ ret.value.params = TextParams(<<"A">>)

----------------------------------------------------------------------------
(* Claims on runSearch                                                     *)

Settled(run) == run.state # "pending"

(* The step is a call of runSearch *)
RunIssued == Len(runs') = Len(runs) + 1

(* The step is the completion of a request whose controller was aborted *)
CancelledCompletes(id) ==
    runs[id].state = "pending" /\ runs[id].aborted /\ runs'[id].state # "pending"

(* The step is the failure of the request of the current run *)
CurrentFails(id) == runs[id].state = "pending" /\ runs'[id].state = "failed"

(* C1: latest call wins.  A run superseded before its request resolved     *)
(* publishes nothing, every other run publishes exactly one result set,    *)
(* only the most recently issued run ever publishes, and once every        *)
(* request has completed the published result set is the one of the most   *)
(* recently issued run (unless the agent pushed results after it).         *)
C1_State ==
    /\ \A id \in 1..Len(runs) :
          /\ runs[id].state = "cancelled" => runs[id].pubs = 0
          /\ runs[id].state \in {"hit", "ok", "failed"} => runs[id].pubs = 1
          /\ runs[id].state = "pending" => runs[id].pubs = 0
    /\ (/\ mounted
        /\ Len(runs) > 0
        /\ \A id \in 1..Len(runs) : Settled(runs[id])
        /\ publishedBy # -1) => publishedBy = Len(runs)

C1_Step == \A id \in 1..Len(runs) : runs'[id].pubs > runs[id].pubs => id = Len(runs)

C1_LatestRunWins == []C1_State /\ [][C1_Step]_vars

(* The first of two runs was cancelled without publishing and the second   *)
(* published the results of its own request.                               *)
C1_Witness ==
    /\ mounted
    /\ Len(runs) = 2
    /\ runs[1].state = "cancelled" /\ runs[1].pubs = 0
    /\ runs[2].state = "ok" /\ runs[2].pubs = 1
    /\ runs[1].params # runs[2].params
    /\ publishedBy = 2
    /\ properties = <<"p1">>

(* C2: the completion of a superseded request changes none of the          *)
(* published results, the loading flag, the restored flag, the agent       *)
(* banner and the cache store.                                             *)
C2_SupersededCompletionIsNoOp ==
    [][\A id \in 1..Len(runs) :
          CancelledCompletes(id) =>
              UNCHANGED <<properties, loading, lastRestored, agentBanner, cache, lastKey>>]_vars

(* C8 as claimed: a run whose getResults(params) returns an entry, whatever *)
(* its result list holds, publishes the cached results, marks the state    *)
(* restored and issues no request.                                         *)
C8_AnyHitIsServed ==
    [][RunIssued =>
          LET run == runs'[Len(runs')]
              cached == getResults(cache, run.params, now')
          IN  cached # Null =>
                  /\ run.state = "hit"
                  /\ properties' = cached.results
                  /\ lastRestored'
                  /\ ~loading']_vars

(* C8 as amended: the cached results are served when the entry's result    *)
(* list is not empty; an entry with an empty result list is treated as a   *)
(* miss and a request is issued.                                           *)
C8_NonEmptyHitIsServed ==
    [][RunIssued =>
          LET run == runs'[Len(runs')]
              cached == getResults(cache, run.params, now')
          IN  /\ (cached # Null /\ cached.results # <<>>) =>
                    /\ run.state = "hit"
                    /\ properties' = cached.results
                    /\ lastRestored'
                    /\ ~loading'
              /\ (cached # Null /\ cached.results = <<>>) =>
                    /\ run.state = "pending"
                    /\ loading'
                    /\ UNCHANGED <<properties, lastRestored>>]_vars

(* The second run was served from the entry the first run saved. *)
C8_Witness ==
    /\ Len(runs) = 2
    /\ runs[1].state = "ok"
    /\ runs[2].state = "hit"
    /\ publishedBy = 2
    /\ properties = <<"p1">>
    /\ lastRestored
    /\ ~loading

(* C9: the completion of a cancelled request is never a failure and        *)
(* writes nothing: the cache mapping, lastKey and the published result set *)
(* are unchanged and nothing is logged.                                    *)
C9_CancelIsSilent ==
    [][\A id \in 1..Len(runs) :
          CancelledCompletes(id) =>
              /\ runs'[id].state = "cancelled"
              /\ runs'[id].pubs = runs[id].pubs
              /\ UNCHANGED <<cache, lastKey, properties, publishedBy, consoleErrors>>]_vars

(* A request was cancelled while a result set was on display, and the      *)
(* result set is still there.                                              *)
C9_Witness ==
    /\ mounted
    /\ \E id \in 1..Len(runs) : runs[id].state = "cancelled"
    /\ properties = <<"p1">>
    /\ consoleErrors = 0

(* UI state other than the result list and the loading flag *)
UiIndicators == <<agentBanner, lastRestored, selected, mapRefState>>

----------------------------------------------------------------------------
(* Claims on the agent bridge                                              *)

(* A well-formed message: an object whose type is one of the allow-list *)
Valid(v) == v.t = "obj" /\ HasType(v) /\ v.type[1] \in allowed

(* The handler run last received a payload: a frame or a poll response *)
IsReceipt == event.op \in {"message", "response"}

(* C11: whichever transport received it (socket frame or poll response),   *)
(* a payload that is not an object, has no type, or has a type outside the *)
(* allow-list is never forwarded to the application.                       *)
C11_OnlyAllowListedForwarded ==
    IsReceipt => \A j \in 1..Len(event.fwd) : Valid(event.fwd[j])

(* The message a poll response carries in one of the three shapes *)
Delivered(e) ==
    IF e.shape = "pending" THEN e.raw.message[1]
    ELSE IF e.shape = "array" THEN e.raw.items[1]
    ELSE e.raw

(* The handler run last received a poll response carrying one message *)
IsPollOfOne ==
    /\ event.op = "response"
    /\ event.shape \in {"pending", "array", "direct"}
    /\ event.shape = "array" => Len(event.raw.items) = 1

(* C12: a message m gets the same treatment from the polling bridge in     *)
(* each of the three response shapes: what is forwarded for the response   *)
(* received is what is forwarded for { pending: true, message: m }, for    *)
(* [m] and for m itself, and no error is raised.                           *)
C12_ShapesHandledAlike ==
    IsPollOfOne =>
        LET m == Delivered(event)
            kind == insts[event.inst].kind
        IN  /\ event.fwd = PollForwards(kind, PollResponse("ok", "pending", Wrapped(m)))
            /\ event.fwd = PollForwards(kind, PollResponse("ok", "array", JArr(<<m>>)))
            /\ event.fwd = PollForwards(kind, PollResponse("ok", "direct", m))
            /\ ~event.threw

(* The messages of a receipt, in receipt order: the frame of a socket, or  *)
(* what the poll response carries in its shape                             *)
Elements(e) ==
    IF e.op = "message" THEN (IF e.raw.t = "bad" THEN <<>> ELSE <<e.raw>>)
    ELSE IF e.shape = "pending" THEN <<e.raw.message[1]>>
    ELSE IF e.shape = "array" THEN e.raw.items
    ELSE IF e.shape = "direct" THEN <<e.raw>>
    ELSE <<>>

(* C13: for each receipt, the well-formed messages among those forwarded   *)
(* are the well-formed messages of the receipt, each once and in receipt   *)
(* order (array elements in array order), whatever rejected or failing     *)
(* elements stand before them.                                             *)
C13_AcceptedOnceInOrder ==
    IsReceipt => SelectSeq(event.fwd, Valid) = SelectSeq(Elements(event), Valid)

(* The sockets of transport i that are connecting or open *)
Live(i) == {s \in 1..Len(sockets) : sockets[s].inst = i /\ sockets[s].state \in {"connecting", "open"}}

(* Transport i is a socket transport whose teardown function was called *)
TornSocket(i) == insts[i].kind \in SocketKinds /\ insts[i].stops > 0

(* The step creates a socket for transport i *)
Connects(i) == Len(sockets') > Len(sockets) /\ sockets'[Len(sockets')].inst = i

(* C14: once the teardown function of a socket transport was called, in    *)
(* whatever state (connecting, open, or waiting for the reconnect timer),  *)
(* that transport opens no new connection.                                 *)
C14_TeardownIsFinal ==
    [][\A i \in 1..Len(insts) : TornSocket(i) => ~Connects(i)]_vars

(* The connection state of transport i when the sockets are ss *)
ConnState(ss, i) ==
    IF \E s \in 1..Len(ss) : ss[s].inst = i /\ ss[s].state = "open" THEN "connected"
    ELSE IF \E s \in 1..Len(ss) : ss[s].inst = i /\ ss[s].state = "connecting" THEN "connecting"
    ELSE "disconnected"

(* The sockets of transport i whose reconnect timer is set *)
Armed(i) == {s \in 1..Len(sockets) : sockets[s].inst = i /\ sockets[s].retry}

(* Transport i is a socket transport and its teardown function has not     *)
(* been called, neither before nor in this step                            *)
KeptSocket(i) == insts[i].kind \in SocketKinds /\ insts'[i].stops = 0

(* Every end of a connection of transport i in this step sets the          *)
(* reconnect timer, and a timer is only unset by opening a new connection  *)
RetriesInStep(i) ==
    /\ \A s \in 1..Len(sockets) :
          (sockets[s].inst = i /\ sockets[s].state # "closed" /\ sockets'[s].state = "closed")
              => sockets'[s].retry
    /\ \A s \in Armed(i) :
          ~sockets'[s].retry
              => Connects(i) /\ sockets'[Len(sockets')].state = "connecting"

(* The step leaves the connection state of transport i alone or moves it   *)
(* by one of the pairs in moves                                            *)
MovesWithin(i, moves) ==
    \/ ConnState(sockets', i) = ConnState(sockets, i)
    \/ <<ConnState(sockets, i), ConnState(sockets', i)>> \in moves

CycleMoves ==
    {<<"disconnected", "connecting">>, <<"connecting", "connected">>,
     <<"connected", "disconnected">>}

(* C15 as stated: while teardown has not been called, every end of the     *)
(* connection sets the reconnect timer and the timer opens a new           *)
(* connection, and the connection state moves only disconnected ->         *)
(* connecting -> connected -> disconnected.                                *)
C15_OnlyThroughConnected ==
    [][\A i \in 1..Len(insts) :
          KeptSocket(i) => RetriesInStep(i) /\ MovesWithin(i, CycleMoves)]_vars

(* A socket transport that was not torn down has a connection connecting   *)
(* or open, or else one reconnect timer set                                *)
C15_State ==
    \A i \in 1..Len(insts) :
        (insts[i].kind \in SocketKinds /\ insts[i].stops = 0)
            => Cardinality(Live(i)) + Cardinality(Armed(i)) = 1

C15_Step ==
    \A i \in 1..Len(insts) :
        KeptSocket(i) =>
            /\ RetriesInStep(i)
            /\ MovesWithin(i, CycleMoves \cup {<<"connecting", "disconnected">>})

(* C15: while teardown has not been called, every end of the connection    *)
(* (also of an attempt that never opened) sets the reconnect timer and the *)
(* timer opens a new connection, any number of times; the connection state *)
(* moves only disconnected -> connecting -> connected -> disconnected or   *)
(* connecting -> disconnected.                                             *)
C15_ReconnectsUntilTeardown == []C15_State /\ [][C15_Step]_vars

(* A transport never torn down lost an opened connection, then a           *)
(* connection attempt that never opened, and is connecting a third time.   *)
C15_Witness ==
    /\ Len(sockets) = 3 /\ Len(insts) = 1
    /\ insts[1].kind = "socket" /\ insts[1].stops = 0
    /\ sockets[1].state = "closed" /\ sockets[1].pinged
    /\ sockets[2].state = "closed" /\ ~sockets[2].pinged
    /\ sockets[3].state = "connecting"
    /\ event.op = "reconnect"

(* Every socket that is connecting or open, of whichever transport *)
LiveSockets == {s \in 1..Len(sockets) : sockets[s].state \in {"connecting", "open"}}

(* C16: over any sequence of start, open, close, error, reconnect timer    *)
(* and teardown events, a teardown followed by a new start included, at    *)
(* most one agent socket is connecting or open.                            *)
C16_AtMostOneConnection == Cardinality(LiveSockets) <= 1

(* The step issues a poll request of transport i *)
IssuesFetch(i) == insts[i].loop # "fetching" /\ insts'[i].loop = "fetching"

(* C17: once the teardown function of a polling transport was called,      *)
(* with a request in flight or with the loop waiting on its timer, that    *)
(* transport issues no further poll request.                               *)
C17_NoPollAfterTeardown ==
    [][\A i \in 1..Len(insts) :
          (insts[i].kind \in PollKinds /\ insts[i].stops > 0) => ~IssuesFetch(i)]_vars

(* The timer of a torn-down polling transport fired and its loop ended. *)
C17_Witness ==
    /\ event.op = "wake"
    /\ insts[event.inst].kind \in PollKinds
    /\ insts[event.inst].stops > 0
    /\ insts[event.inst].loop = "done"

(* The step is a call of the teardown function of transport i *)
IsTeardown(i) == event'.op = "stop" /\ event'.inst = i

(* The handler run last was the teardown function of transport i *)
JustTornDown(i) == event.op = "stop" /\ event.inst = i

(* Transport i is stopped: torn down, no connection left to close, no      *)
(* timer set, no loop running; or it never connected                       *)
Stopped(i) ==
    \/ insts[i].kind = "socketNoOrigin"
    \/ /\ insts[i].stops > 0
       /\ insts[i].loop \in {"none", "done"}
       /\ \A s \in 1..Len(sockets) :
             sockets[s].inst = i => sockets[s].state = "closed" /\ ~sockets[s].retry

(* The step changes nothing of transport i but the count of teardown calls *)
SameTransport(i) ==
    /\ sockets' = sockets
    /\ [insts'[i] EXCEPT !.stops = 0] = [insts[i] EXCEPT !.stops = 0]
    /\ \A j \in 1..Len(insts) : j # i => insts'[j] = insts[j]

(* C18: teardown is idempotent in both modes: a call right after a call,   *)
(* a call on a stopped transport and a call on a transport that never      *)
(* connected raise no error and leave the transport as it was.             *)
C18_TeardownIdempotent ==
    [][\A i \in 1..Len(insts) :
          (IsTeardown(i) /\ (JustTornDown(i) \/ Stopped(i)))
              => SameTransport(i) /\ ~event'.threw]_vars

(* The teardown function of a socket transport whose connection was open   *)
(* was called twice in a row.                                              *)
C18_Witness ==
    /\ event.op = "stop"
    /\ insts[event.inst].kind = "socket"
    /\ insts[event.inst].stops = 2
    /\ sockets[insts[event.inst].ws].pinged
    /\ sockets[insts[event.inst].ws].state = "closing"

(* What a polling bridge of the given kind forwards when the server hands  *)
(* it the message m                                                        *)
PollForwardsOf(kind, m) == PollForwards(kind, PollResponse("ok", "pending", Wrapped(m)))

(* C19: the two modes forward the same messages for the same payload: what *)
(* a socket forwarded for the frame m is what the polling bridges forward  *)
(* for m, and what a polling bridge forwarded for m is what a socket       *)
(* forwards for the frame m.                                               *)
C19_ModesEquivalent ==
    /\ (event.op = "message" /\ event.raw \in Messages)
          => \A kind \in PollKinds : event.fwd = PollForwardsOf(kind, event.raw)
    /\ IsPollOfOne => event.fwd = onmessage(Delivered(event))

(* The step is the failure of a poll request of transport i *)
PollFails(i) == event'.op = "response" /\ event'.inst = i /\ event'.shape \in PollFailures

(* A polling transport that was not torn down is awaiting its request or   *)
(* its timer                                                               *)
C20_State ==
    \A i \in 1..Len(insts) :
        (insts[i].kind \in PollKinds /\ insts[i].stops = 0)
            => insts[i].loop \in {"fetching", "sleeping"}

C20_Step ==
    \A i \in 1..Len(insts) :
        /\ PollFails(i) =>
              /\ event'.fwd = <<>> /\ ~event'.threw
              /\ UNCHANGED <<now, ret, storeVars, dashVars, sockets>>
              /\ insts'[i].loop = "sleeping"
        /\ (event'.op = "wake" /\ event'.inst = i /\ insts[i].stops = 0)
              => IssuesFetch(i)

(* C20: a failed poll (network error, non-OK status, unparsable body)      *)
(* forwards no message and changes no application state, and the loop goes *)
(* on: it waits on its timer and, unless teardown was called, the timer    *)
(* issues the next poll request.                                           *)
C20_FailedPollRetries == []C20_State /\ [][C20_Step]_vars

(* A poll request failed on an unparsable body; nothing was forwarded and  *)
(* the loop, not torn down, is waiting on its timer.                       *)
C20_Witness ==
    /\ event.op = "response" /\ event.shape = "badjson"
    /\ insts[event.inst].stops = 0
    /\ insts[event.inst].loop = "sleeping"

----------------------------------------------------------------------------
(* Claims on the store: lastKey, frames, preferences, keys                 *)

C21_State == lastKey = NoKey \/ lastKey \in Keys(cache)

C21_Step ==
    (ret'.op = "saveMapState" /\ ret'.arg = Null /\ lastKey # NoKey) =>
        /\ lastKey' = lastKey
        /\ Keys(cache') = Keys(cache)
        /\ Lookup(cache', lastKey).mapState = M1
        /\ Lookup(cache', lastKey).ts = now'

MapStateTarget == MapStateKey(ret'.arg)

(* C23: saveMapState on a target that does not exist (params whose key is  *)
(* not in the mapping, or null params with a null lastKey) changes neither *)
(* the keys of the mapping, nor any entry, nor lastKey.                    *)
C23_MapStateNoTarget ==
    [][(ret'.op = "saveMapState" /\ MapStateTarget \notin Keys(cache))
          => cache' = cache /\ lastKey' = lastKey]_vars

(* saveMapState was called with params whose key a store holding another   *)
(* entry does not have: no entry was created.                              *)
C23_Witness ==
    /\ ret.op = "saveMapState" /\ ret.arg # Null
    /\ cache # <<>>
    /\ buildKey(ret.arg) \notin Keys(cache)
    /\ lastKey \in Keys(cache)

(* The step is a saveMapState call on a target the mapping has *)
MapStateOnTarget == ret'.op = "saveMapState" /\ MapStateTarget \in Keys(cache)

(* The step changes, in the cache, only mapState and ts of the entry at    *)
(* key, and nothing of the flags and preference maps                       *)
OnlyMapStateOf(key) ==
    /\ Len(cache') = Len(cache)
    /\ \A i \in 1..Len(cache) :
          /\ cache'[i].key = cache[i].key
          /\ cache[i].key # key => cache'[i].val = cache[i].val
          /\ cache[i].key = key =>
                /\ cache'[i].val.results = cache[i].val.results
                /\ cache'[i].val.params = cache[i].val.params
                /\ cache'[i].val.mapState = M1
                /\ cache'[i].val.ts = now'
    /\ UNCHANGED <<lastRestored, radiusByPlace, categoryByPlace>>

(* C24 as stated: saveMapState on an existing target changes only that     *)
(* entry's mapState and timestamp; results, params, every other entry,     *)
(* lastKey and the preference maps are unchanged.                          *)
C24_OnlyMapStateAndTs ==
    [][MapStateOnTarget => OnlyMapStateOf(MapStateTarget) /\ lastKey' = lastKey]_vars

(* C24: saveMapState on an existing target changes that entry's mapState   *)
(* and timestamp and sets lastKey to the entry's key; results, params,     *)
(* every other entry and the preference maps are unchanged.                *)
C24_MapStateTsAndLastKey ==
    [][MapStateOnTarget => OnlyMapStateOf(MapStateTarget) /\ lastKey' = MapStateTarget]_vars

(* saveMapState was called with the params of one of two entries: that     *)
(* entry has the new mapState, the timestamp of the call and its results,  *)
(* and lastKey is its key.                                                 *)
C24_Witness ==
    /\ ret.op = "saveMapState" /\ ret.arg # Null
    /\ Len(cache) >= 2
    /\ lastKey = buildKey(ret.arg)
    /\ lastKey \in Keys(cache)
    /\ Lookup(cache, lastKey) = Entry(Lookup(cache, lastKey).params, <<"p1">>, M1, now)
    /\ \E i \in 1..Len(cache) : cache[i].val.mapState = Null /\ cache[i].val.ts < now

(* The entry at key when the mapping has it and its age is within the TTL, *)
(* Null otherwise                                                          *)
Unexpired(key) ==
    IF key \in Keys(cache) /\ now - Lookup(cache, key).ts <= TTL_MS
    THEN Lookup(cache, key)
    ELSE Null

(* C25: getResultsOrLast(params) returns the unexpired entry of params     *)
(* when there is one; otherwise the unexpired entry of lastKey, whatever   *)
(* its params; and not-found only when neither is there unexpired.         *)
C25_ExactThenLast ==
    ret.op = "getResultsOrLast" =>
        LET exact == IF ret.arg # Null THEN Unexpired(buildKey(ret.arg)) ELSE Null
            last == Unexpired(lastKey)
        IN  ret.value = IF exact # Null THEN exact ELSE last

(* getResultsOrLast was asked for params whose entry is in the mapping but *)
(* expired, and returned the unexpired entry of lastKey, saved for other   *)
(* params.                                                                 *)
C25_Witness ==
    /\ ret.op = "getResultsOrLast" /\ ret.arg # Null
    /\ buildKey(ret.arg) \in Keys(cache)
    /\ now - Lookup(cache, buildKey(ret.arg)).ts > TTL_MS
    /\ ret.value # Null
    /\ ret.value = Lookup(cache, lastKey)
    /\ buildKey(ret.value.params) # buildKey(ret.arg)

(* C26: the preference maps are outside the cache's lifetime rules: only   *)
(* a preference's own save changes its map, whatever else is called and    *)
(* whatever time passes (saveResults with its eviction pass, saveMapState, *)
(* clearAll, the readers), and clearAll leaves the cache mapping empty,    *)
(* lastKey null and the restore flag false.                                *)
C26_Step ==
    /\ ret'.op # "saveRadiusForPlace" => radiusByPlace' = radiusByPlace
    /\ ret'.op # "saveCategoryForPlace" => categoryByPlace' = categoryByPlace
    /\ ret'.op = "clearAll" => cache' = <<>> /\ lastKey' = NoKey /\ ~lastRestored'

C26_PreferencesOutlive == [][C26_Step]_vars

(* clearAll has just run, more than the TTL after construction, and both   *)
(* preference maps still hold the values saved for the place.              *)
C26_Witness ==
    /\ ret.op = "clearAll"
    /\ now > T0 + TTL_MS
    /\ cache = <<>>
    /\ DOMAIN radiusByPlace = {"p1"} /\ radiusByPlace["p1"] = NumV(500)
    /\ DOMAIN categoryByPlace = {"p1"} /\ categoryByPlace["p1"] = StrV(<<"g">>)

(* What the last save of the preference for the place was called with,     *)
(* Null when there was none                                                *)
SavedFor(pref, placeId) ==
    IF <<pref, placeId>> \in DOMAIN writes THEN writes[<<pref, placeId>>] ELSE Null

(* C27: preference round trip: getRadiusForPlace / getCategoryForPlace     *)
(* returns the value most recently saved for the place, whatever it is     *)
(* (radius 0 and the empty category key included), and null exactly when   *)
(* nothing was ever saved for the place.                                   *)
C27_PreferenceRoundTrip ==
    /\ ret.op = "getRadiusForPlace" => ret.value = SavedFor("radius", ret.arg.placeId)
    /\ ret.op = "getCategoryForPlace" => ret.value = SavedFor("category", ret.arg.placeId)


(* C28: the readers never mutate the store: a call of getResults,          *)
(* getResultsOrLast or getLast leaves the cache mapping, lastKey, the      *)
(* restore flag and the preference maps as they were, so an expired entry  *)
(* is still in the mapping after the read that reported it not found.      *)
C28_ReadsDoNotMutate ==
    [][ret'.op \in ReadOps => UNCHANGED storeVars]_vars

(* getResults has just reported not-found for params whose entry is in    *)
(* the mapping, expired.                                                   *)
C28_Witness ==
    /\ ret.op = "getResults"
    /\ ret.value = Null
    /\ buildKey(ret.arg) \in Keys(cache)
    /\ now - Lookup(cache, buildKey(ret.arg)).ts > TTL_MS

(* The params of the shapes the cache operations are called with, as       *)
(* getKey takes them                                                       *)
AsTextParams(q) == ObjParams(StrV(<<"text">>), StrV(q), Undefined, Undefined)

(* C29: buildKey is total and deterministic: whatever params it is given   *)
(* (null, an omitted argument, missing fields, a q that is a number, an    *)
(* unrecognized mode) it returns a key without raising, the key its input  *)
(* determines.                                                             *)
C29_BuildKeyTotal ==
    ret.op = "getKey" =>
        /\ ~ret.value.threw
        /\ \A p \in KeyInputs : p = ret.arg => buildKeyAny(p) = ret.value

IsText(p) == p.mode = StrV(<<"text">>)
IsNearby(p) == p.mode = StrV(<<"nearby">>)

(* Two params differ in mode, or in the discriminating fields of the mode  *)
(* they share: the normalized q for text, the pair (sw, ne) for nearby.    *)
DifferentSearch(p1, p2) ==
    \/ p1.mode # p2.mode
    \/ IsText(p1) /\ IsText(p2) /\ NormalizedQ(p1.q) # NormalizedQ(p2.q)
    \/ IsNearby(p1) /\ IsNearby(p2) /\ <<p1.sw, p1.ne>> # <<p2.sw, p2.ne>>

(* C30: cache keys are unique per search: the key of nearby params holds   *)
(* the coordinate strings exactly as provided, and no two params that      *)
(* differ in mode or in their discriminating fields have the same key.     *)
(* For params of the shapes the cache operations are called with, getKey   *)
(* is buildKey.                                                            *)
C30_KeysUnique ==
    /\ \A q \in StoreQueries : buildKeyAny(AsTextParams(q)) = Key(buildKey(TextParams(q)))
    /\ ret.op = "getKey" /\ ~ret.value.threw =>
        /\ IsNearby(ret.arg) /\ ret.arg.sw.t = "string" /\ ret.arg.ne.t = "string" =>
               ret.value.key = <<"nearby:">> \o ret.arg.sw.s \o <<"|">> \o ret.arg.ne.s
        /\ \A p \in KeyInputs :
               DifferentSearch(p, ret.arg) /\ ~buildKeyAny(p).threw =>
                   buildKeyAny(p).key # ret.value.key

----------------------------------------------------------------------------
(* Claims on eviction order, the search orchestration and the dispatcher   *)

(* The mapping a saveResults step hands to its eviction pass: the keys and *)
(* timestamps before the step, with the key written stamped now'.          *)
KeysBefore == Keys(cache) \cup {ret'.value.key}
TsBefore(k) == IF k = ret'.value.key THEN now' ELSE Lookup(cache, k).ts
UnexpiredBefore == {k \in KeysBefore : now' - TsBefore(k) <= TTL_MS}
Removed == KeysBefore \ Keys(cache')

(* C31: eviction order in a write: the expired entries are removed; an     *)
(* unexpired entry is removed only if the unexpired entries are more than  *)
(* MAX_KEYS; and every unexpired entry removed has a timestamp no larger   *)
(* than that of every entry kept.                                          *)
C31_Step ==
    ret'.op = "saveResults" =>
        /\ \A k \in KeysBefore \ UnexpiredBefore : k \in Removed
        /\ (UnexpiredBefore \cap Removed # {}) => Cardinality(UnexpiredBefore) > MAX_KEYS
        /\ Cardinality(UnexpiredBefore) > MAX_KEYS => Len(cache') = MAX_KEYS
        /\ \A k \in UnexpiredBefore \cap Removed :
              \A k2 \in Keys(cache') : TsBefore(k) <= Lookup(cache', k2).ts

C31_ExpiredThenOldest == [][C31_Step]_vars

(* A save has left MAX_KEYS entries; of the queries saved so far, one is   *)
(* gone whose entry would be expired now and one whose entry would not.    *)
C31_Witness ==
    /\ ret.op = "saveResults"
    /\ Len(cache) = MAX_KEYS
    /\ \A i \in 1..Len(writes) : writes[i].op = "saveResults"
    /\ \E i \in 1..Len(writes) :
          writes[i].key \notin Keys(cache) /\ now - writes[i].ts > TTL_MS
    /\ \E i \in 1..Len(writes) :
          writes[i].key \notin Keys(cache) /\ now - writes[i].ts <= TTL_MS

(* The step is the success of the request of run id *)
Succeeds(id) ==
    /\ id \in 1..Len(runs)
    /\ runs[id].state = "pending"
    /\ runs'[id].state = "ok"

(* The step is a call of runSearch *)
IsRun == Len(runs') = Len(runs) + 1

(* The call of runSearch of the step follows at once the save of a         *)
(* successful request for the same params: the run issued last is that     *)
(* request, and the clock has not moved                                    *)
RunsAgainAtOnce ==
    /\ IsRun
    /\ Len(runs) > 0
    /\ runs[Len(runs)].state = "ok"
    /\ runs[Len(runs)].params = runs'[Len(runs')].params
    /\ ret.op = "saveResults"
    /\ ret.arg = runs'[Len(runs')].params
    /\ now' = now

SavedOnSuccess ==
    \A id \in 1..Len(runs) :
        Succeeds(id) =>
            /\ mounted => properties' = ret'.results
            /\ runs[id].pubs = 0 /\ runs'[id].pubs = 1
            /\ ret'.op = "saveResults"
            /\ ret'.arg = runs[id].params
            /\ Lookup(cache', buildKey(runs[id].params)).results = ret'.results
            /\ Lookup(cache', buildKey(runs[id].params)).ts = now'

OnlySuccessSaves ==
    ret' # ret => \E id \in 1..Len(runs) : Succeeds(id)

ServedFromCache ==
    /\ runs'[Len(runs')].state = "hit"
    /\ properties' = ret.results
    /\ cache' = cache

(* C32 as stated: a miss whose request succeeds unsuperseded publishes the *)
(* returned results and saves them once under its params, and a run of the *)
(* same params right after it is a cache hit with no network request.      *)
C32_SavedThenHit ==
    [][SavedOnSuccess /\ OnlySuccessSaves /\ (RunsAgainAtOnce => ServedFromCache)]_vars

(* C32, amended: as above, the run right after it being a cache hit when   *)
(* the returned result list is not empty.                                  *)
C32_SavedThenHitIfNonEmpty ==
    [][/\ SavedOnSuccess
       /\ OnlySuccessSaves
       /\ (RunsAgainAtOnce /\ ret.results # <<>>) => ServedFromCache]_vars

(* A run was served from the cache at the instant at which the successful  *)
(* request of the run before it, for the same params, had saved.           *)
C32_Witness ==
    /\ Len(runs) = 2
    /\ runs[1].state = "ok" /\ runs[1].pubs = 1
    /\ runs[2].state = "hit"
    /\ runs[2].params = runs[1].params
    /\ ret.op = "saveResults" /\ ret.arg = runs[1].params
    /\ Lookup(cache, buildKey(runs[1].params)).ts = now
    /\ properties = ret.results

(* What a call of runSearch does apart from the banner, written from the   *)
(* store, the params and the clock alone                                   *)
RunBySourceAlike ==
    IsRun =>
        LET run == runs'[Len(runs')]
            cached == getResults(cache, run.params, now')
            hit == cached # Null /\ cached.results # <<>>
        IN  /\ run.state = IF hit THEN "hit" ELSE "pending"
            /\ run.snap = mapRefState
            /\ properties' = IF hit THEN cached.results ELSE properties
            /\ loading' = ~hit
            /\ lastRestored' = (hit \/ lastRestored)
            /\ selected' = Null
            /\ currentAbortRef' = Len(runs')
            /\ UNCHANGED <<cache, lastKey, radiusByPlace, categoryByPlace>>
            /\ run.source = "user" => agentBanner' = agentBanner

(* What the success of a request does apart from the banner, written from  *)
(* the run's params and snapshot and the response alone                    *)
SuccessBySourceAlike ==
    \A id \in 1..Len(runs) :
        Succeeds(id) =>
            /\ properties' = ret'.results
            /\ cache' = SavedCache(cache, runs[id].params, ret'.results, runs[id].snap, now')
            /\ lastKey' = buildKey(runs[id].params)
            /\ ~lastRestored'
            /\ ~loading'
            /\ runs[id].source = "user" => agentBanner' = agentBanner

(* C33: the source tag does not influence caching: the hit/miss decision   *)
(* of a run, the request it issues, the results it publishes and the cache *)
(* store it leaves are determined by the store, the params and the         *)
(* response, the same for a run tagged user and one tagged agent; only the *)
(* agent banner depends on the tag.                                        *)
C33_SourceOnlySetsBanner == [][RunBySourceAlike /\ SuccessBySourceAlike]_vars

(* A user run and then an agent run of the same params both missed on the  *)
(* same empty store, and the agent run's request succeeded and was saved.  *)
C33_Witness ==
    /\ Len(runs) = 2
    /\ runs[1].source = "user" /\ runs[1].state = "failed"
    /\ runs[2].source = "agent" /\ runs[2].state = "ok"
    /\ runs[1].params = runs[2].params
    /\ Keys(cache) = {buildKey(runs[2].params)}
    /\ agentBanner # Null

(* The step is a run of the URL effect that calls runSearch *)
UrlEffectSearches == urlEffectDeps' # urlEffectDeps /\ IsRun

(* C34: the URL effect calls run() only when the search params of the URL  *)
(* have changed since it last ran (or on its first run): with the URL the  *)
(* same, no other state change, such as a new map snapshot on idle, makes  *)
(* it issue another run, so the results of a later user search are not     *)
(* replaced by those of the URL's search.                                  *)
C34_UrlEffectOnUrlChangeOnly ==
    [][UrlEffectSearches => (~urlEffectDeps.ran \/ urlEffectDeps.search # location)]_vars

(* The entry of key k is in the mapping with an age within the TTL at t *)
Readable(c, k, t) == k \in Keys(c) /\ t - Lookup(c, k).ts <= TTL_MS

(* C35: expiry is permanent for stored results: an entry whose age has     *)
(* exceeded the TTL is not readable after any step other than a new        *)
(* saveResults for its key; saveMapState on it does not revive it.         *)
C35_ExpiryIsPermanent ==
    [][\A k \in Keys(cache) :
          (/\ now - Lookup(cache, k).ts > TTL_MS
           /\ ~(ret'.op = "saveResults" /\ ret'.value.key = k))
              => ~Readable(cache', k, now')]_vars

(* C36: no inbound agent message is forwarded to the application by a      *)
(* transport whose teardown function was called, in either mode: not by a  *)
(* poll response or a connection in flight at the teardown, nor later.     *)
C36_NoForwardAfterTeardown ==
    (event.op \in {"message", "response"} /\ event.fwd # <<>>) =>
        insts[event.inst].stops = 0

(* The step issues a poll request of transport i: its loop comes to await  *)
(* a fetch, or its fetch settles and it awaits a fetch again               *)
IssuesRequest(i) ==
    /\ insts'[i].loop = "fetching"
    /\ insts[i].loop # "fetching" \/ (event'.op = "response" /\ event'.inst = i)

(* C37: in poll mode at most one poll request of a transport is            *)
(* outstanding: a response settles the one request in flight, and a new    *)
(* request is issued only by the timer set after the previous request      *)
(* completed or failed.                                                    *)
C37_OnePollOutstanding ==
    [][\A i \in 1..Len(insts) :
          insts[i].kind \in PollKinds =>
              /\ IssuesRequest(i) =>
                    insts[i].loop = "sleeping" /\ event'.op = "wake" /\ event'.inst = i
              /\ (event'.op = "response" /\ event'.inst = i) =>
                    insts[i].loop = "fetching" /\ insts'[i].loop = "sleeping"]_vars

(* The timer of a polling transport that was not torn down fired and       *)
(* issued the next request.                                                *)
C37_Witness ==
    /\ event.op = "wake"
    /\ insts[event.inst].kind \in PollKinds
    /\ insts[event.inst].loop = "fetching"
    /\ insts[event.inst].stops = 0

(* C38: results pushed by the agent are not overwritten by an older        *)
(* search: while the pushed result set is the published one, the next to   *)
(* publish is a run issued after the push (or another push), never the     *)
(* completion of a request issued before it.                               *)
C38_PushNotOverwrittenByOlder ==
    [][(publishedBy = -1 /\ publishedBy' # -1) => publishedBy' > writes[1]]_vars
(* Every request issued has completed, failed or been cancelled *)
NoRequestInFlight == \A i \in 1..Len(runs) : runs[i].state # "pending"

(* C39: every run() call eventually leaves the loading flag false: for any *)
(* params, those taken from an AGENT_SEARCH message included, once every   *)
(* issued request has completed, failed or been cancelled, loading is      *)
(* false on the mounted page and user searches are accepted again.         *)
C39_LoadingFalseWhenIdle ==
    (mounted /\ NoRequestInFlight) => ~loading

RecognizedActions ==
    {"OPEN_LISTING", "SELECT_BY_ID", "FOCUS_MAP", "NAVIGATE_SEARCH", "SHOW_BANNER"}

(* The dispatcher has no action for msg while props are the results *)
NoActionFor(msg, props) ==
    \/ msg.type \in {"AGENT_PING", "AGENT_LOG"}
    \/ /\ msg.type = "AGENT_UI"
       /\ \/ msg.action.t = "number"
          \/ /\ msg.action.t = "string"
             /\ msg.action.name # ""
             /\ ToUpperCase(msg.action.name) \notin RecognizedActions
          \/ /\ msg.action.t = "string"
             /\ ToUpperCase(msg.action.name) = "SELECT_BY_ID"
             /\ msg.payload.id # ""
             /\ \A i \in 1..Len(props) : props[i] # msg.payload.id

C40_Step ==
    (event' # event /\ event'.op = "onMsg" /\ NoActionFor(event'.raw, properties))
        => /\ UNCHANGED <<properties, selected, agentBanner, loading, storeVars,
                          runs, currentAbortRef, location>>
           /\ event'.fwd = <<>>

(* C40: an accepted message the dispatcher has no action for (AGENT_PING,  *)
(* AGENT_LOG, AGENT_UI with an unrecognized action, SELECT_BY_ID with an   *)
(* id that is not among the current results) changes no state: results,    *)
(* selection, banner, loading flag and store are unchanged and no search   *)
(* or navigation is started.                                               *)
C40_UnhandledMessageChangesNothing == [][C40_Step]_vars

(* SELECT_BY_ID with an unknown id was dispatched while a place was        *)
(* selected and a banner shown                                             *)
C40_Witness ==
    /\ event.op = "onMsg"
    /\ event.raw = SelectUnknownMsg
    /\ selected # Null
    /\ properties # <<>>
    /\ agentBanner # Null

====
